---- MODULE Spec2Model ----
(***************************************************************************)
(* Audio-to-score transcription pipeline of                               *)
(* src/src/transcriber/brass_arranger.py (class AudioTranscriber).        *)
(*                                                                         *)
(* Units.  Frequencies are fixed-point numbers in centi-Hz (20 Hz = 2000). *)
(* Times are ticks of 1/40 s (0.05 s = 2, 0.375 s = 15, 0.5 s = 20).       *)
(* Note lengths and beat offsets are in 1/20 of a quarter note             *)
(* (quarterLength 0.5 = 10, 1.0 = 20, 2.0 = 40, 4.0 = 80).                 *)
(* Magnitudes are in 1/100 (0.05 = 5).                                     *)
(* A continuous semitone number (the float librosa.hz_to_midi returns) is  *)
(* kept in quarter semitones: 4k is exactly k, 4k+1 lies strictly between  *)
(* k and k+1/2, 4k+2 is exactly k+1/2, 4k+3 lies strictly between k+1/2    *)
(* and k+1.  Rounding to the nearest integer is exact on this form.        *)
(***************************************************************************)
EXTENDS Integers, Sequences, FiniteSets, TLC

VARIABLES
    freq,            \* the frequency of the peak _frequency_to_note was last called for
    magnitude,       \* the magnitude of that peak
    note_obj,        \* what _frequency_to_note returned for it
    prev_freq,       \* the frequency of the call before the last one
    prev_note,       \* the value the call before the last one returned
    calls,           \* how many peaks the Pitch Mapper was called on: "none", "one", "two"
    pc,              \* transcribe_to_midi: the stage the call has reached
    audio_duration,  \* len(audio) / sr, in ticks
    onset_times,     \* what _detect_onsets returned
    onset_index,     \* the onset the loop of _extract_notes_from_audio is at
    peaks,           \* peak_freqs and peak_mags of the window being analysed
    treble_notes,    \* the (onset_time, note_obj) pairs of the treble voice
    bass_notes,      \* the (onset_time, note_obj) pairs of the bass voice
    detected_key,    \* what _detect_key_signature returned
    treble_part,     \* the part built from treble_notes
    bass_part,       \* the part built from bass_notes
    score,           \* the parts of the score transcribe_to_midi returns
    cancel_requested,\* the caller has asked for the call to be cancelled
    call,            \* two calls of transcribe_to_midi side by side: the
                     \* locals of each, stage by stage
    fit,             \* _transpose_note_to_range: the loop it is in, the pitch
                     \* it was called with and the pitch of note_obj now
    arranger,        \* a BrassArranger: its score, its treble_part and
                     \* bass_part, and the parts and the duet score it built
    pattern          \* the template-based transcribe_to_midi: the beat of
                     \* _extract_known_pattern, the notes and the parts

pitchVars == <<freq, magnitude, note_obj, prev_freq, prev_note, calls>>

pipeVars ==
    <<pc, audio_duration, onset_times, onset_index, peaks, treble_notes,
      bass_notes, detected_key, treble_part, bass_part, score>>

\* What is outside the one call the variables above follow.
arrVars == <<fit, arranger, pattern>>

outerVars == <<cancel_requested, call, fit, arranger, pattern>>

vars ==
    <<freq, magnitude, note_obj, prev_freq, prev_note, calls,
      pc, audio_duration, onset_times, onset_index, peaks, treble_notes,
      bass_notes, detected_key, treble_part, bass_part, score,
      cancel_requested, call, fit, arranger, pattern>>

(***************************************************************************)
(* Bounds of the model.                                                    *)
(***************************************************************************)
\* Half-step indices (twice the semitone number) whose equal-tempered
\* frequencies, and the fixed-point numbers next to them, are the inputs of
\* the Pitch Mapper: 30 is 19.45 Hz (semitone 15), 217 is 4308 Hz (108.5).
MinHalfStep == 30
MaxHalfStep == 217

\* The most onsets _detect_onsets returns for one buffer.
MaxOnsets == 3

\* The number of tone bursts of the buffer of the end-to-end scenario.
NumBursts == 9

(***************************************************************************)
(* Pitch Mapper.                                                           *)
(***************************************************************************)
\* The music21 object a rejected peak gives: Python's None.
None == [pitch |-> -1, quarterLength |-> 0]

\* note.Note(pitch.Pitch(midi=m)): a note of music21's default length, one
\* quarter note.
Note(m) == [pitch |-> m, quarterLength |-> 20]

\* Equal-tempered frequencies (A4 = 440 Hz) of the 24 half steps of the octave
\* that starts at A8 = 7040 Hz, to the nearest centi-Hz.
HalfStepBase ==
    << 704000, 724629, 745862, 767717, 790213, 813368, 837202, 861734,
       886984, 912975, 939727, 967263, 995606, 1024780, 1054808, 1085716,
       1117530, 1150276, 1183982, 1218675, 1254385, 1291142, 1328975, 1367917 >>

\* The fixed-point frequency of half step h (semitone h/2), h <= 257:
\* 440 Hz * 2^((h - 138) / 24), the octave of HalfStepBase halved k times.
\* It is the one fixed-point number at which hz_to_midi is exactly h/2, as the
\* float nearest to an equal-tempered frequency is for the float computation.
HalfStepFreq(h) ==
    LET j == (h - 234) % 24
        k == 0 - ((h - 234) \div 24)
    IN  IF k = 0 THEN HalfStepBase[j + 1]
        ELSE (HalfStepBase[j + 1] + 2 ^ (k - 1)) \div (2 ^ k)

\* librosa.hz_to_midi: 12 * (log2(f) - log2(440)) + 69, in quarter semitones,
\* for 19.45 Hz <= f < 14080 Hz.
hz_to_midi(f) ==
    LET k == CHOOSE o \in 0..9 :
                 /\ HalfStepFreq(234 - 24 * o) <= f
                 /\ (o = 0 \/ f < HalfStepFreq(234 - 24 * (o - 1)))
        lo == 234 - 24 * k
        h == CHOOSE x \in lo..(lo + 23) :
                 /\ HalfStepFreq(x) <= f
                 /\ (x = lo + 23 \/ f < HalfStepFreq(x + 1))
    IN  IF HalfStepFreq(h) = f THEN 2 * h ELSE 2 * h + 1

\* A round to the nearest integer that takes a tie upwards (floor(x + 1/2)).
round_half_up(q) == (q + 2) \div 4

\* Python's round() of a float: to the nearest integer, a tie to the even one.
round(q) ==
    LET fl == q \div 4
        r == q % 4
    IN  IF r < 2 THEN fl
        ELSE IF r > 2 THEN fl + 1
        ELSE IF fl % 2 = 0 THEN fl ELSE fl + 1

\* _frequency_to_note with the cutoffs and without the range check of the
\* template-based transcriber (ai_music_transcription/brass_arranger.py:75).
frequency_to_note_template(f) ==
    IF f <= 2000 \/ f > 800000 THEN None
    ELSE Note(round(hz_to_midi(f)))

\* _frequency_to_note without the high cutoff.
frequency_to_note_no_high(f) ==
    IF f <= 2000 THEN None
    ELSE LET midi_note_rounded == round(hz_to_midi(f))
         IN  IF midi_note_rounded < 21 \/ midi_note_rounded > 108 THEN None
             ELSE Note(midi_note_rounded)

\* _frequency_to_note with the operands of the subtraction in the conversion
\* swapped: 12 * (log2(440) - log2(f)) + 69.
frequency_to_note_swapped(f) ==
    IF f <= 2000 \/ f > 400000 THEN None
    ELSE LET midi_note_rounded == round(552 - hz_to_midi(f))
         IN  IF midi_note_rounded < 21 \/ midi_note_rounded > 108 THEN None
             ELSE Note(midi_note_rounded)

\* _frequency_to_note with the number of piano keys, 88, as the upper limit.
frequency_to_note_88(f) ==
    IF f <= 2000 \/ f > 400000 THEN None
    ELSE LET midi_note_rounded == round(hz_to_midi(f))
         IN  IF midi_note_rounded < 21 \/ midi_note_rounded > 88 THEN None
             ELSE Note(midi_note_rounded)

\* AudioTranscriber._frequency_to_note(freq).
frequency_to_note(f) ==
    IF f <= 2000 \/ f > 400000 THEN None
    ELSE LET midi_note == hz_to_midi(f)
             midi_note_rounded == round(midi_note)
         IN  IF midi_note_rounded < 21 \/ midi_note_rounded > 108 THEN None
             ELSE Note(midi_note_rounded)

(***************************************************************************)
(* Peak ranking and Voice Classifier (_extract_notes_from_audio).          *)
(***************************************************************************)
\* np.argsort(a): the indices of a in ascending order of value; equal values
\* keep their order (numpy sorts an array of at most 16 elements by
\* insertion).
argsort(a) ==
    LET n == Len(a)
        rank(k) == Cardinality({j \in 1..n :
                        a[j] < a[k] \/ (a[j] = a[k] /\ j < k)})
    IN  [i \in 1..n |-> CHOOSE k \in 1..n : rank(k) = i - 1]

\* s[::-1].
reversed(s) == [i \in 1..Len(s) |-> s[Len(s) + 1 - i]]

\* s[:n].
first(s, n) == SubSeq(s, 1, IF Len(s) < n THEN Len(s) ELSE n)

\* A Voice Classifier that puts middle C itself into the bass.
voice_above_middle_c(note) == IF note.pitch > 60 THEN "treble" ELSE "bass"

\* The voice of a note: note_obj.pitch.ps >= Ranges.MIDDLE_C.
voice(note) == IF note.pitch >= 60 THEN "treble" ELSE "bass"

\* The loop over the strongest peaks with each note put at the front of the
\* list of its voice (insert(0, ...)) and not at its end.
RECURSIVE process_peaks_prepend(_, _, _, _)
process_peaks_prepend(pk, idx, onset_time, loc) ==
    IF idx = <<>> THEN loc
    ELSE LET f == pk[Head(idx)].freq
             mag == pk[Head(idx)].magnitude
             n == frequency_to_note(f)
             seen == [loc EXCEPT !.freq = f, !.magnitude = mag, !.note_obj = n]
             next ==
                 IF n # None /\ mag > 5
                 THEN IF voice(n) = "treble"
                      THEN [seen EXCEPT !.treble = <<<<onset_time, n>>>> \o @]
                      ELSE [seen EXCEPT !.bass = <<<<onset_time, n>>>> \o @]
                 ELSE seen
         IN  process_peaks_prepend(pk, Tail(idx), onset_time, next)

\* The loop over the strongest peaks without the test of note_obj: a peak that
\* maps to no pitch is appended like any other (None has no pitch, the model's
\* -1 is below middle C).
RECURSIVE process_peaks_unchecked(_, _, _, _)
process_peaks_unchecked(pk, idx, onset_time, loc) ==
    IF idx = <<>> THEN loc
    ELSE LET f == pk[Head(idx)].freq
             mag == pk[Head(idx)].magnitude
             n == frequency_to_note(f)
             seen == [loc EXCEPT !.freq = f, !.magnitude = mag, !.note_obj = n]
             next ==
                 IF mag > 5
                 THEN IF voice(n) = "treble"
                      THEN [seen EXCEPT !.treble = Append(@, <<onset_time, n>>)]
                      ELSE [seen EXCEPT !.bass = Append(@, <<onset_time, n>>)]
                 ELSE seen
         IN  process_peaks_unchecked(pk, Tail(idx), onset_time, next)

\* The loop over the strongest peaks: sorted_indices[:4] of the peaks pk, each
\* mapped to a note and appended to the list of its voice.  idx is what is left
\* of sorted_indices[:4]; loc holds the two lists and the loop's freq,
\* magnitude and note_obj.
RECURSIVE process_peaks(_, _, _, _)
process_peaks(pk, idx, onset_time, loc) ==
    IF idx = <<>> THEN loc
    ELSE LET f == pk[Head(idx)].freq
             mag == pk[Head(idx)].magnitude
             n == frequency_to_note(f)
             seen == [loc EXCEPT !.freq = f, !.magnitude = mag, !.note_obj = n]
             next ==
                 IF n # None /\ mag > 5
                 THEN IF voice(n) = "treble"
                      THEN [seen EXCEPT !.treble = Append(@, <<onset_time, n>>)]
                      ELSE [seen EXCEPT !.bass = Append(@, <<onset_time, n>>)]
                 ELSE seen
         IN  process_peaks(pk, Tail(idx), onset_time, next)

\* The strongest peaks without the reversal of the ascending order:
\* np.argsort(peak_mags)[:4].
strongest_peaks_ascending(pk) ==
    first(argsort([i \in 1..Len(pk) |-> pk[i].magnitude]), 4)

\* The strongest peaks taken from the second one on: sorted_indices[1:4].
strongest_peaks_skip_first(pk) ==
    LET sorted_indices == reversed(argsort([i \in 1..Len(pk) |-> pk[i].magnitude]))
    IN  SubSeq(sorted_indices, 2, IF Len(pk) < 4 THEN Len(pk) ELSE 4)

\* sorted_indices = np.argsort(peak_mags)[::-1], then the loop over
\* sorted_indices[:4].
strongest_peaks(pk) ==
    first(reversed(argsort([i \in 1..Len(pk) |-> pk[i].magnitude])), 4)

(***************************************************************************)
(* Spectral Window Analyzer (_extract_notes_from_audio).                   *)
(***************************************************************************)
\* int(t * sr) for a time of t ticks: sr = 22050, so a tick is 2205/4 samples.
samples(t) == (t * 2205) \div 4

\* The analysis window without the clipping of its end to the buffer.
window_unclipped(onset_time, duration) ==
    LET start_time == IF onset_time - 2 > 0 THEN onset_time - 2 ELSE 0
        end_time == start_time + 12
    IN  [start_sample |-> samples(start_time), end_sample |-> samples(end_time)]

\* The analysis window of an onset in a buffer of the given duration:
\* start_time = max(0, onset_time - 0.05), end_time = min(len(audio) / sr,
\* start_time + 0.3), start_sample = int(start_time * sr), end_sample =
\* int(end_time * sr).
window(onset_time, duration) ==
    LET start_time == IF onset_time - 2 > 0 THEN onset_time - 2 ELSE 0
        end_time == IF duration < start_time + 12
                    THEN duration ELSE start_time + 12
    IN  [start_sample |-> samples(start_time), end_sample |-> samples(end_time)]

(***************************************************************************)
(* Duration Estimator (_estimate_note_durations).                          *)
(***************************************************************************)
\* sorted(notes, key=lambda x: x[0]): by onset time, equal times in their
\* order.
sorted_by_onset(notes) ==
    LET order == argsort([i \in 1..Len(notes) |-> notes[i][1]])
    IN  [i \in 1..Len(notes) |-> notes[order[i]]]

\* The quantization with the boundaries taken as exclusive (<).
quantize_exclusive(duration) ==
    IF duration < 15 THEN 10
    ELSE IF duration < 30 THEN 20
    ELSE IF duration < 60 THEN 40
    ELSE 80

\* The quantization of a gap in ticks to a note length: "if duration <= 0.375
\* ... elif duration <= 0.75 ... elif duration <= 1.5 ... else".
quantize(duration) ==
    IF duration <= 15 THEN 10
    ELSE IF duration <= 30 THEN 20
    ELSE IF duration <= 60 THEN 40
    ELSE 80

\* _estimate_note_durations with a last-note default of 0.25 s.
estimate_note_durations_short_default(notes) ==
    IF Len(notes) <= 1 THEN notes
    ELSE LET sorted_notes == sorted_by_onset(notes)
             n == Len(sorted_notes)
         IN  [i \in 1..n |->
                 LET duration == IF i < n
                                 THEN sorted_notes[i + 1][1] - sorted_notes[i][1]
                                 ELSE 10
                 IN  <<sorted_notes[i][1],
                       [sorted_notes[i][2] EXCEPT !.quarterLength = quantize(duration)]>>]

\* AudioTranscriber._estimate_note_durations(notes).
estimate_note_durations(notes) ==
    IF Len(notes) <= 1 THEN notes
    ELSE LET sorted_notes == sorted_by_onset(notes)
             n == Len(sorted_notes)
         IN  [i \in 1..n |->
                 LET duration == IF i < n
                                 THEN sorted_notes[i + 1][1] - sorted_notes[i][1]
                                 ELSE 20
                 IN  <<sorted_notes[i][1],
                       [sorted_notes[i][2] EXCEPT !.quarterLength = quantize(duration)]>>]

(***************************************************************************)
(* Key Signature Estimator (_detect_key_signature).                        *)
(***************************************************************************)
\* key.KeySignature(n).
KeySignature(n) == [sharps |-> n]

\* The table from pitch class to the number of sharps of its major key.
major_keys ==
    (0 :> 0) @@ (7 :> 1) @@ (2 :> 2) @@ (9 :> 3) @@ (4 :> 4) @@ (11 :> 5)
        @@ (6 :> 6) @@ (1 :> 7) @@ (5 :> -1) @@ (10 :> -2) @@ (3 :> -3)
        @@ (8 :> -4)

\* max(pc_counts, key=pc_counts.get) of the counts of the pitch classes pcs:
\* the first pitch class, in the order the dict got its keys, of those with the
\* highest count.
most_common(pcs) ==
    LET count(c) == Cardinality({i \in 1..Len(pcs) : pcs[i] = c})
        best == CHOOSE i \in 1..Len(pcs) :
                    /\ \A j \in 1..Len(pcs) : count(pcs[j]) <= count(pcs[i])
                    /\ \A j \in 1..(i - 1) : count(pcs[j]) < count(pcs[i])
    IN  pcs[best]

\* _detect_key_signature that takes the least frequent pitch class.
detect_key_signature_least(notes) ==
    IF notes = <<>> THEN KeySignature(0)
    ELSE LET pitch_classes == [i \in 1..Len(notes) |-> notes[i][2].pitch % 12]
             count(c) == Cardinality({i \in 1..Len(notes) : pitch_classes[i] = c})
             least == CHOOSE i \in 1..Len(notes) :
                          \A j \in 1..Len(notes) :
                              count(pitch_classes[i]) <= count(pitch_classes[j])
         IN  KeySignature(major_keys[pitch_classes[least]])

\* AudioTranscriber._detect_key_signature(notes).
detect_key_signature(notes) ==
    IF notes = <<>> THEN KeySignature(0)
    ELSE LET pitch_classes == [i \in 1..Len(notes) |-> notes[i][2].pitch % 12]
             most_common_pc == most_common(pitch_classes)
         IN  IF most_common_pc \in DOMAIN major_keys
             THEN KeySignature(major_keys[most_common_pc])
             ELSE KeySignature(0)

(***************************************************************************)
(* Score Assembler (_create_dynamic_part).                                 *)
(***************************************************************************)
\* note.Rest(quarterLength=ql) inserted at an offset of a measure.
RestAt(offset, ql) ==
    [offset |-> offset, rest |-> TRUE, pitch |-> -1, quarterLength |-> ql]

\* measure.insert(offset, music_note).
NoteAt(offset, music_note) ==
    [offset |-> offset, rest |-> FALSE, pitch |-> music_note.pitch,
     quarterLength |-> music_note.quarterLength]

\* The notes inserted with the beat offset taken from the onset time itself,
\* without the "% seconds_per_measure".
RECURSIVE inserted_no_modulo(_, _, _)
inserted_no_modulo(notes, index, num_measures) ==
    IF notes = <<>> THEN <<>>
    ELSE LET onset_time == Head(notes)[1]
             music_note == Head(notes)[2]
             by_time == onset_time \div 80
             measure_index == IF by_time < num_measures - 1
                              THEN by_time ELSE num_measures - 1
             beat_offset == (onset_time * 20) \div 20
             others == inserted_no_modulo(Tail(notes), index, num_measures)
         IN  IF measure_index = index
             THEN <<NoteAt(beat_offset, music_note)>> \o others
             ELSE others

\* The notes of the list inserted into measure number index + 1, in the order
\* of the list: measure_index = min(int(onset_time / seconds_per_measure),
\* num_measures - 1), beat_offset = (onset_time % seconds_per_measure) /
\* seconds_per_beat, with 0.5 s per beat and 2 s per measure.
RECURSIVE inserted(_, _, _)
inserted(notes, index, num_measures) ==
    IF notes = <<>> THEN <<>>
    ELSE LET onset_time == Head(notes)[1]
             music_note == Head(notes)[2]
             by_time == onset_time \div 80
             measure_index == IF by_time < num_measures - 1
                              THEN by_time ELSE num_measures - 1
             time_in_measure == onset_time % 80
             beat_offset == (time_in_measure * 20) \div 20
             others == inserted(Tail(notes), index, num_measures)
         IN  IF measure_index = index
             THEN <<NoteAt(beat_offset, music_note)>> \o others
             ELSE others

\* _create_dynamic_part without the "if not notes" branch: a voice without
\* notes gets its measures with nothing in them.
create_dynamic_part_no_rest(notes, clef_obj, key_sig, duration) ==
    LET by_duration == (duration + 79) \div 80
        num_measures == IF by_duration < 1 THEN 1 ELSE by_duration
    IN  [clef |-> clef_obj, key_sig |-> key_sig,
         measures |->
             [i \in 1..num_measures |->
                 [number |-> i,
                  elements |-> inserted(notes, i - 1, num_measures)]]]

\* AudioTranscriber._create_dynamic_part(notes, instrument_obj, clef_obj,
\* key_sig, audio_duration), called with an audio_duration: the part's clef,
\* its key signature and its measures, each with its number and the notes and
\* rests inserted into it.
create_dynamic_part(notes, clef_obj, key_sig, duration) ==
    IF notes = <<>>
    THEN [clef |-> clef_obj, key_sig |-> key_sig,
          measures |-> << [number |-> 1, elements |-> <<RestAt(0, 80)>>] >>]
    ELSE LET by_duration == (duration + 79) \div 80
             num_measures == IF by_duration < 1 THEN 1 ELSE by_duration
         IN  [clef |-> clef_obj, key_sig |-> key_sig,
              measures |->
                  [i \in 1..num_measures |->
                      [number |-> i,
                       elements |-> inserted(notes, i - 1, num_measures)]]]

(***************************************************************************)
(* Inputs of the Pitch Mapper.                                             *)
(***************************************************************************)
\* Every half-step frequency of the bounds and the fixed-point number just
\* above it, 0 Hz, and the two cutoffs with the numbers just above them.
FreqSamples ==
    {0, 2000, 2001, 400000, 400001}
        \cup {HalfStepFreq(h) + d : h \in MinHalfStep..MaxHalfStep, d \in {0, 1}}

\* Peak magnitudes: 0.05 (the threshold itself) and 0.20.
PeakMags == {5, 20}

(***************************************************************************)
(* Inputs of the pipeline.                                                 *)
(***************************************************************************)
\* The elements of a set of integers in ascending order.
Ascending(S) ==
    [i \in 1..Cardinality(S) |->
        CHOOSE x \in S : Cardinality({y \in S : y < x}) = i - 1]

\* Buffer lengths: 0.25 s (shorter than an analysis window), 1 s (one
\* measure) and 3 s (two measures).
AudioDurations == {10, 40, 120}

\* The times an onset can be detected at: 0 s, 0.375 s, 1.125 s, 2.625 s and
\* 2.875 s.  The gaps of the first four are 0.375 s, 0.75 s, 1.125 s, 1.5 s,
\* 2.25 s and 2.625 s; the window of the last one ends after a 3 s buffer.
OnsetGrid == {0, 15, 45, 105, 115}

\* What _detect_onsets can return for a buffer of the given duration:
\* ascending times inside the buffer, at most MaxOnsets of them.
OnsetSequences(duration) ==
    {Ascending(S) : S \in {T \in SUBSET {t \in OnsetGrid : t < duration} :
                              Cardinality(T) <= MaxOnsets}}

\* The frequencies a picked peak can have: 25 Hz (semitone 19, below the
\* piano), 246.94 Hz (B3, 59), 261.63 Hz (C4, 60) and 440 Hz (A4, 69).
PeakFreqs == {2500, 24694, 26163, 44000}

\* What peak picking can return for a window: peaks in ascending order of
\* frequency (peak_indices is ascending), each with a magnitude.
PeakLists ==
    UNION {{[i \in 1..Cardinality(S) |->
                [freq |-> Ascending(S)[i], magnitude |-> m[Ascending(S)[i]]]] :
            m \in [S -> PeakMags]} : S \in SUBSET PeakFreqs}

(***************************************************************************)
(* Initial values.                                                         *)
(***************************************************************************)
\* No call of _frequency_to_note on its own was made.
PitchIdle ==
    /\ freq = 0
    /\ magnitude = 0
    /\ note_obj = None
    /\ prev_freq = 0
    /\ prev_note = None
    /\ calls = "none"

\* transcribe_to_midi was not called.
PipeIdle ==
    /\ pc = "start"
    /\ audio_duration = 0
    /\ onset_times = <<>>
    /\ onset_index = 0
    /\ peaks = <<>>
    /\ treble_notes = <<>>
    /\ bass_notes = <<>>
    /\ detected_key = None
    /\ treble_part = None
    /\ bass_part = None
    /\ score = <<>>

\* The locals of a call of transcribe_to_midi that has not started.
CallIdle ==
    [pc |-> "start", audio |-> <<>>, treble_notes |-> <<>>,
     bass_notes |-> <<>>, detected_key |-> None, score |-> <<>>]

\* No cancellation was asked for, and neither of the two calls has started.
\* _transpose_note_to_range has not been called.
FitIdle ==
    [pc |-> "idle", start |-> 0, ps |-> 0, min_pitch |-> 0, max_pitch |-> 0]

\* No BrassArranger has been constructed.
ArrangerIdle ==
    [pc |-> "idle", score |-> <<>>, treble_part |-> None, bass_part |-> None,
     trumpet_part |-> None, trombone_part |-> None, duet_score |-> <<>>]

\* The template-based transcribe_to_midi has not been called.
PatternIdle ==
    [pc |-> "idle", audible |-> [treble |-> {}, bass |-> {}], i |-> 0,
     treble_template_notes |-> <<>>, bass_template_notes |-> <<>>,
     treble_notes |-> <<>>, bass_notes |-> <<>>, score |-> <<>>]

\* No cancellation was asked for, neither of the two calls has started, and
\* no arranger and no template-based transcriber is at work.
OuterIdle ==
    /\ cancel_requested = FALSE
    /\ call = [c \in {1, 2} |-> CallIdle]
    /\ fit = FitIdle
    /\ arranger = ArrangerIdle
    /\ pattern = PatternIdle

(***************************************************************************)
(* The Pitch Mapper called on a peak, and on a second one.                 *)
(***************************************************************************)
InitPitch == PitchIdle /\ PipeIdle /\ OuterIdle

\* note_obj = self._frequency_to_note(freq), for a peak (freq, magnitude).
FrequencyToNote ==
    /\ \E f \in FreqSamples, m \in PeakMags :
           /\ freq' = f
           /\ magnitude' = m
           /\ note_obj' = frequency_to_note(f)
    /\ prev_freq' = freq
    /\ prev_note' = note_obj
    /\ UNCHANGED pipeVars
    /\ UNCHANGED outerVars

\* The call for the first peak.
FirstCall ==
    /\ calls = "none"
    /\ calls' = "one"
    /\ FrequencyToNote

\* The call for the next peak.
SecondCall ==
    /\ calls = "one"
    /\ calls' = "two"
    /\ FrequencyToNote

NextPitch == FirstCall

SpecPitch == InitPitch /\ [][NextPitch]_vars

NextPitchPair == FirstCall \/ SecondCall

SpecPitchPair == InitPitch /\ [][NextPitchPair]_vars

(***************************************************************************)
(* One call of transcribe_to_midi.                                         *)
(***************************************************************************)
Init == PitchIdle /\ PipeIdle /\ OuterIdle

\* audio, sr = librosa.load(...); audio_duration = len(audio) / sr.
LoadAudio ==
    /\ pc = "start"
    /\ \E d \in AudioDurations : audio_duration' = d
    /\ pc' = "loaded"
    /\ UNCHANGED <<onset_times, onset_index, peaks, treble_notes, bass_notes,
                   detected_key, treble_part, bass_part, score>>
    /\ UNCHANGED pitchVars
    /\ UNCHANGED outerVars

\* _extract_notes_from_audio up to its loop: onset_times =
\* self._detect_onsets(audio, sr), treble_notes = [], bass_notes = [].
DetectOnsets ==
    /\ pc = "loaded"
    /\ \E o \in OnsetSequences(audio_duration) :
           /\ onset_times' = o
           /\ pc' = IF o = <<>> THEN "return" ELSE "window"
    /\ onset_index' = 1
    /\ treble_notes' = <<>>
    /\ bass_notes' = <<>>
    /\ UNCHANGED <<audio_duration, peaks, detected_key, treble_part,
                   bass_part, score>>
    /\ UNCHANGED pitchVars
    /\ UNCHANGED outerVars

\* The loop body up to the peak picking: the window around the onset, clipped
\* to the buffer, and the peaks of its spectrum.  A window with no sample is skipped.  The freq, magnitude and
\* note_obj of the iteration before are not read again and are dropped here.
AnalyzeWindow ==
    /\ pc = "window"
    /\ LET w == window(onset_times[onset_index], audio_duration)
       IN  IF w.end_sample > w.start_sample
           THEN \E pk \in PeakLists : peaks' = pk
           ELSE peaks' = <<>>
    /\ freq' = 0
    /\ magnitude' = 0
    /\ note_obj' = None
    /\ pc' = "peaks"
    /\ UNCHANGED <<audio_duration, onset_times, onset_index, treble_notes,
                   bass_notes, detected_key, treble_part, bass_part, score>>
    /\ UNCHANGED <<prev_freq, prev_note, calls>>
    /\ UNCHANGED outerVars

\* The rest of the loop body: the strongest peaks of the window, each mapped
\* to a note and appended to its voice; then the next onset, or the end of
\* the loop.
ProcessPeaks ==
    /\ pc = "peaks"
    /\ LET loc == process_peaks(peaks, strongest_peaks(peaks),
                                onset_times[onset_index],
                                [treble |-> treble_notes, bass |-> bass_notes,
                                 freq |-> freq, magnitude |-> magnitude,
                                 note_obj |-> note_obj])
       IN  /\ treble_notes' = loc.treble
           /\ bass_notes' = loc.bass
           /\ freq' = loc.freq
           /\ magnitude' = loc.magnitude
           /\ note_obj' = loc.note_obj
    /\ peaks' = <<>>
    /\ onset_index' = onset_index + 1
    /\ pc' = IF onset_index = Len(onset_times) THEN "return" ELSE "window"
    /\ UNCHANGED <<audio_duration, onset_times, detected_key, treble_part,
                   bass_part, score>>
    /\ UNCHANGED <<prev_freq, prev_note, calls>>
    /\ UNCHANGED outerVars

\* return treble_notes, bass_notes: the end of _extract_notes_from_audio and of
\* its freq, magnitude and note_obj.
ReturnNotes ==
    /\ pc = "return"
    /\ freq' = 0
    /\ magnitude' = 0
    /\ note_obj' = None
    /\ pc' = "extracted"
    /\ UNCHANGED <<audio_duration, onset_times, onset_index, peaks,
                   treble_notes, bass_notes, detected_key, treble_part,
                   bass_part, score>>
    /\ UNCHANGED <<prev_freq, prev_note, calls>>
    /\ UNCHANGED outerVars

\* treble_notes = self._estimate_note_durations(treble_notes).
EstimateTrebleDurations ==
    /\ pc = "extracted"
    /\ treble_notes' = estimate_note_durations(treble_notes)
    /\ pc' = "treble_durations"
    /\ UNCHANGED <<audio_duration, onset_times, onset_index, peaks, bass_notes,
                   detected_key, treble_part, bass_part, score>>
    /\ UNCHANGED pitchVars
    /\ UNCHANGED outerVars

\* bass_notes = self._estimate_note_durations(bass_notes).
EstimateBassDurations ==
    /\ pc = "treble_durations"
    /\ bass_notes' = estimate_note_durations(bass_notes)
    /\ pc' = "durations"
    /\ UNCHANGED <<audio_duration, onset_times, onset_index, peaks,
                   treble_notes, detected_key, treble_part, bass_part, score>>
    /\ UNCHANGED pitchVars
    /\ UNCHANGED outerVars

\* The key signature detected from the treble notes alone.
DetectKeySignature_treble_only ==
    /\ pc = "durations"
    /\ detected_key' = detect_key_signature(treble_notes)
    /\ pc' = "key"
    /\ UNCHANGED <<audio_duration, onset_times, onset_index, peaks,
                   treble_notes, bass_notes, treble_part, bass_part, score>>
    /\ UNCHANGED pitchVars
    /\ UNCHANGED outerVars

\* all_notes = treble_notes + bass_notes;
\* detected_key = self._detect_key_signature(all_notes).
DetectKeySignature ==
    /\ pc = "durations"
    /\ detected_key' = detect_key_signature(treble_notes \o bass_notes)
    /\ pc' = "key"
    /\ UNCHANGED <<audio_duration, onset_times, onset_index, peaks,
                   treble_notes, bass_notes, treble_part, bass_part, score>>
    /\ UNCHANGED pitchVars
    /\ UNCHANGED outerVars

\* treble_part = self._create_dynamic_part(treble_notes, ...).
CreateTreblePart ==
    /\ pc = "key"
    /\ treble_part' = create_dynamic_part(treble_notes, "treble", detected_key,
                                          audio_duration)
    /\ pc' = "treble_part"
    /\ UNCHANGED <<audio_duration, onset_times, onset_index, peaks,
                   treble_notes, bass_notes, detected_key, bass_part, score>>
    /\ UNCHANGED pitchVars
    /\ UNCHANGED outerVars

\* bass_part = self._create_dynamic_part(bass_notes, ...).
CreateBassPart ==
    /\ pc = "treble_part"
    /\ bass_part' = create_dynamic_part(bass_notes, "bass", detected_key,
                                        audio_duration)
    /\ pc' = "bass_part"
    /\ UNCHANGED <<audio_duration, onset_times, onset_index, peaks,
                   treble_notes, bass_notes, detected_key, treble_part, score>>
    /\ UNCHANGED pitchVars
    /\ UNCHANGED outerVars

\* score.insert(0, treble_part); score.insert(0, bass_part); return score.
ReturnScore ==
    /\ pc = "bass_part"
    /\ score' = <<treble_part, bass_part>>
    /\ pc' = "done"
    /\ UNCHANGED <<audio_duration, onset_times, onset_index, peaks,
                   treble_notes, bass_notes, detected_key, treble_part,
                   bass_part>>
    /\ UNCHANGED pitchVars
    /\ UNCHANGED outerVars

Next ==
    \/ LoadAudio
    \/ DetectOnsets
    \/ AnalyzeWindow
    \/ ProcessPeaks
    \/ ReturnNotes
    \/ EstimateTrebleDurations
    \/ EstimateBassDurations
    \/ DetectKeySignature
    \/ CreateTreblePart
    \/ CreateBassPart
    \/ ReturnScore

Spec == Init /\ [][Next]_vars

(***************************************************************************)
(* One call of transcribe_to_midi on a buffer of NumBursts pure-tone       *)
(* bursts, 0.5 s apart, the odd ones treble tones and the even ones bass   *)
(* tones.                                                                  *)
(***************************************************************************)
\* The tone of burst number i: A4 (440 Hz, 69) or C5 (523.25 Hz, 72) for an
\* odd i, C3 (130.81 Hz, 48) or E3 (164.81 Hz, 52) for an even i.
BurstTones(i) == IF i % 2 = 1 THEN {44000, 52325} ELSE {13081, 16481}

\* librosa.load of the buffer of bursts.
LoadBursts ==
    /\ pc = "start"
    /\ audio_duration' = 20 * NumBursts
    /\ pc' = "loaded"
    /\ UNCHANGED <<onset_times, onset_index, peaks, treble_notes, bass_notes,
                   detected_key, treble_part, bass_part, score>>
    /\ UNCHANGED pitchVars
    /\ UNCHANGED outerVars

\* _detect_onsets finds every burst, at the time it starts.
DetectBursts ==
    /\ pc = "loaded"
    /\ onset_times' = [i \in 1..NumBursts |-> 20 * (i - 1)]
    /\ pc' = "window"
    /\ onset_index' = 1
    /\ treble_notes' = <<>>
    /\ bass_notes' = <<>>
    /\ UNCHANGED <<audio_duration, peaks, detected_key, treble_part,
                   bass_part, score>>
    /\ UNCHANGED pitchVars
    /\ UNCHANGED outerVars

\* The loop body up to the peak picking, for the window of a burst: its
\* spectrum has one peak, the tone, of magnitude 1.
AnalyzeBurst ==
    /\ pc = "window"
    /\ LET w == window(onset_times[onset_index], audio_duration)
       IN  IF w.end_sample > w.start_sample
           THEN \E f \in BurstTones(onset_index) :
                    peaks' = << [freq |-> f, magnitude |-> 100] >>
           ELSE peaks' = <<>>
    /\ freq' = 0
    /\ magnitude' = 0
    /\ note_obj' = None
    /\ pc' = "peaks"
    /\ UNCHANGED <<audio_duration, onset_times, onset_index, treble_notes,
                   bass_notes, detected_key, treble_part, bass_part, score>>
    /\ UNCHANGED <<prev_freq, prev_note, calls>>
    /\ UNCHANGED outerVars

NextBursts ==
    \/ LoadBursts
    \/ DetectBursts
    \/ AnalyzeBurst
    \/ ProcessPeaks
    \/ ReturnNotes
    \/ EstimateTrebleDurations
    \/ EstimateBassDurations
    \/ DetectKeySignature
    \/ CreateTreblePart
    \/ CreateBassPart
    \/ ReturnScore

SpecBursts == Init /\ [][NextBursts]_vars

(***************************************************************************)
(* _extract_notes_from_audio on a 1 s buffer with one onset whose window   *)
(* has more peaks than the four that are processed.                        *)
(***************************************************************************)
\* The frequencies of the peaks of a dense window: C3 (48), B3 (59), C4 (60),
\* E4 (329.63 Hz, 64), G4 (392 Hz, 67) and A4 (69).
DenseFreqs == {13081, 24694, 26163, 32963, 39200, 44000}

\* Their magnitudes: 0.05, 0.20 and 0.30.
DenseMags == {5, 20, 30}

\* What peak picking can return for a dense window: five or six peaks in
\* ascending order of frequency, each with a magnitude.
DensePeakLists ==
    UNION {{[i \in 1..Cardinality(S) |->
                [freq |-> Ascending(S)[i], magnitude |-> m[Ascending(S)[i]]]] :
            m \in [S -> DenseMags]} :
           S \in {T \in SUBSET DenseFreqs : Cardinality(T) >= 5}}

\* librosa.load of the 1 s buffer.
LoadDense ==
    /\ pc = "start"
    /\ audio_duration' = 40
    /\ pc' = "loaded"
    /\ UNCHANGED <<onset_times, onset_index, peaks, treble_notes, bass_notes,
                   detected_key, treble_part, bass_part, score>>
    /\ UNCHANGED pitchVars
    /\ UNCHANGED outerVars

\* _detect_onsets finds one onset, at 0.375 s.
DetectDense ==
    /\ pc = "loaded"
    /\ onset_times' = <<15>>
    /\ pc' = "window"
    /\ onset_index' = 1
    /\ treble_notes' = <<>>
    /\ bass_notes' = <<>>
    /\ UNCHANGED <<audio_duration, peaks, detected_key, treble_part,
                   bass_part, score>>
    /\ UNCHANGED pitchVars
    /\ UNCHANGED outerVars

\* The loop body up to the peak picking, for a dense window.
AnalyzeDense ==
    /\ pc = "window"
    /\ LET w == window(onset_times[onset_index], audio_duration)
       IN  IF w.end_sample > w.start_sample
           THEN \E pk \in DensePeakLists : peaks' = pk
           ELSE peaks' = <<>>
    /\ freq' = 0
    /\ magnitude' = 0
    /\ note_obj' = None
    /\ pc' = "peaks"
    /\ UNCHANGED <<audio_duration, onset_times, onset_index, treble_notes,
                   bass_notes, detected_key, treble_part, bass_part, score>>
    /\ UNCHANGED <<prev_freq, prev_note, calls>>
    /\ UNCHANGED outerVars

NextDense ==
    \/ LoadDense
    \/ DetectDense
    \/ AnalyzeDense
    \/ ProcessPeaks
    \/ ReturnNotes

SpecDense == Init /\ [][NextDense]_vars

(***************************************************************************)
(* Two calls of transcribe_to_midi side by side, each on its own buffer,   *)
(* their stages interleaved in any order.                                  *)
(***************************************************************************)
\* What peak picking returns for a window of one of the buffers: B3, C4, or
\* both, of magnitude 0.20.
CallWindows ==
    { << [freq |-> 24694, magnitude |-> 20] >>,
      << [freq |-> 26163, magnitude |-> 20] >>,
      << [freq |-> 24694, magnitude |-> 20], [freq |-> 26163, magnitude |-> 20] >> }

\* The buffers a call can load: 1 s long, with no onset, one at 0 s, or two
\* at 0 s and 0.375 s, and the peaks of the window of each onset.
CallBuffers ==
    UNION {{[duration |-> 40, onset_times |-> o, windows |-> w] :
            w \in [1..Len(o) -> CallWindows]} : o \in {<<>>, <<0>>, <<0, 15>>}}

\* The loop of _extract_notes_from_audio from the onset of the given index
\* on: the window of each onset, its peaks, and the strongest of them mapped
\* to notes and appended to the two lists of loc.
RECURSIVE extract_notes(_, _, _)
extract_notes(audio, index, loc) ==
    IF index > Len(audio.onset_times) THEN loc
    ELSE LET onset_time == audio.onset_times[index]
             w == window(onset_time, audio.duration)
             pk == IF w.end_sample > w.start_sample
                   THEN audio.windows[index] ELSE <<>>
         IN  extract_notes(audio, index + 1,
                           process_peaks(pk, strongest_peaks(pk), onset_time, loc))

\* audio, sr = librosa.load(...) of call c.
CallLoad(c) ==
    /\ call[c].pc = "start"
    /\ \E b \in CallBuffers :
           call' = [call EXCEPT ![c].pc = "loaded", ![c].audio = b]
    /\ UNCHANGED <<pitchVars, pipeVars, cancel_requested, arrVars>>

\* Call c with the two lists of notes kept in attributes of the transcriber
\* object the two calls share, and not in locals.
CallExtract_shared(c) ==
    /\ call[c].pc = "loaded"
    /\ LET loc == extract_notes(call[c].audio, 1,
                                [treble |-> <<>>, bass |-> <<>>, freq |-> 0,
                                 magnitude |-> 0, note_obj |-> None])
       IN  call' = [d \in {1, 2} |->
                       [call[d] EXCEPT !.pc = IF d = c THEN "extracted" ELSE @,
                                       !.treble_notes = loc.treble,
                                       !.bass_notes = loc.bass]]
    /\ UNCHANGED <<pitchVars, pipeVars, cancel_requested, arrVars>>

\* treble_notes, bass_notes = self._extract_notes_from_audio(audio, sr) of
\* call c.
CallExtract(c) ==
    /\ call[c].pc = "loaded"
    /\ LET loc == extract_notes(call[c].audio, 1,
                                [treble |-> <<>>, bass |-> <<>>, freq |-> 0,
                                 magnitude |-> 0, note_obj |-> None])
       IN  call' = [call EXCEPT ![c].pc = "extracted",
                                ![c].treble_notes = loc.treble,
                                ![c].bass_notes = loc.bass]
    /\ UNCHANGED <<pitchVars, pipeVars, cancel_requested, arrVars>>

\* The two calls of _estimate_note_durations of call c.
CallEstimate(c) ==
    /\ call[c].pc = "extracted"
    /\ call' = [call EXCEPT
                   ![c].pc = "durations",
                   ![c].treble_notes = estimate_note_durations(@),
                   ![c].bass_notes = estimate_note_durations(@)]
    /\ UNCHANGED <<pitchVars, pipeVars, cancel_requested, arrVars>>

\* detected_key = self._detect_key_signature(all_notes) of call c.
CallDetectKey(c) ==
    /\ call[c].pc = "durations"
    /\ call' = [call EXCEPT
                   ![c].pc = "key",
                   ![c].detected_key =
                       detect_key_signature(call[c].treble_notes
                                                \o call[c].bass_notes)]
    /\ UNCHANGED <<pitchVars, pipeVars, cancel_requested, arrVars>>

\* The two parts and the score of call c, and its return.
CallAssemble(c) ==
    /\ call[c].pc = "key"
    /\ call' = [call EXCEPT
                   ![c].pc = "done",
                   ![c].score =
                       << create_dynamic_part(call[c].treble_notes, "treble",
                                              call[c].detected_key,
                                              call[c].audio.duration),
                          create_dynamic_part(call[c].bass_notes, "bass",
                                              call[c].detected_key,
                                              call[c].audio.duration) >>]
    /\ UNCHANGED <<pitchVars, pipeVars, cancel_requested, arrVars>>

NextCalls ==
    \E c \in {1, 2} :
        \/ CallLoad(c)
        \/ CallExtract(c)
        \/ CallEstimate(c)
        \/ CallDetectKey(c)
        \/ CallAssemble(c)

SpecCalls == Init /\ [][NextCalls]_vars

(***************************************************************************)
(* The call of transcribe_to_midi on the buffer of bursts whose caller     *)
(* asks, at any moment, for it to be cancelled.  transcribe_to_midi takes  *)
(* the path of the audio file and nothing else, and no stage reads a       *)
(* cancellation signal.                                                    *)
(***************************************************************************)
\* The caller sets the cancellation signal.
RequestCancel ==
    /\ cancel_requested = FALSE
    /\ pc # "done"
    /\ cancel_requested' = TRUE
    /\ UNCHANGED <<pitchVars, pipeVars, call, arrVars>>

NextCancel == NextBursts \/ RequestCancel

SpecCancel == Init /\ [][NextCancel]_vars

(***************************************************************************)
(* Claims about the Pitch Mapper, checked under SpecPitch (C3 under        *)
(* SpecPitchPair).                                                         *)
(***************************************************************************)
\* C1: _frequency_to_note returns None for every frequency at or below 20 Hz
\* and for every frequency above 4000 Hz, whatever the magnitude of the peak.
C1_Cutoffs ==
    (calls # "none" /\ (freq <= 2000 \/ freq > 400000)) => note_obj = None

\* A peak of magnitude 0.20 just above 4000 Hz was mapped to no pitch.
C1_Witness ==
    calls # "none" /\ freq = 400001 /\ magnitude = 20 /\ note_obj = None

\* C3: of two frequencies f1 < f2 that _frequency_to_note both accepts, the
\* semitone of f1 is at most the semitone of f2.
C3_Monotonic ==
    (calls = "two" /\ prev_note # None /\ note_obj # None /\ prev_freq < freq)
        => prev_note.pitch <= note_obj.pitch

\* Two accepted frequencies, the second one higher and mapped to a higher
\* semitone.
C3_Witness ==
    /\ calls = "two" /\ prev_note # None /\ note_obj # None
    /\ prev_freq < freq /\ prev_note.pitch < note_obj.pitch

\* C4 as stated: for every semitone m whose equal-tempered frequency lies
\* inside the acceptance range (above 20 Hz, at most 4000 Hz),
\* _frequency_to_note of that frequency returns exactly m.
C4_AsStated ==
    \A m \in 0..128 :
        (calls # "none" /\ freq = HalfStepFreq(2 * m)
            /\ freq > 2000 /\ freq <= 400000) => note_obj = Note(m)

\* C4, amended: for every semitone m of the piano range 21..108 whose
\* equal-tempered frequency lies inside the acceptance range,
\* _frequency_to_note of that frequency returns exactly m.
C4_RoundTrip ==
    \A m \in 21..108 :
        (calls # "none" /\ freq = HalfStepFreq(2 * m)
            /\ freq > 2000 /\ freq <= 400000) => note_obj = Note(m)

\* 440 Hz was mapped to semitone 69.
C4_Witness ==
    calls # "none" /\ freq = 44000 /\ note_obj = Note(69)

\* C5: when the continuous semitone number of an accepted frequency is exactly
\* halfway between two integers, the even one of the two is chosen; every
\* other value goes to its nearest integer.
C5_TieToEven ==
    (calls # "none" /\ note_obj # None) =>
        LET q == hz_to_midi(freq)
            p == note_obj.pitch
        IN  IF q % 4 = 2
            THEN p % 2 = 0 /\ (4 * p - q = 2 \/ q - 4 * p = 2)
            ELSE 4 * p - q < 2 /\ q - 4 * p < 2

\* An accepted frequency exactly halfway between an even semitone and the odd
\* one above it was mapped to the even, lower one.
C5_Witness ==
    /\ calls # "none" /\ note_obj # None
    /\ hz_to_midi(freq) % 4 = 2
    /\ 4 * note_obj.pitch + 2 = hz_to_midi(freq)

(***************************************************************************)
(* Claims about one call of transcribe_to_midi, checked under Spec.        *)
(***************************************************************************)
\* The stages at which each voice has been through _estimate_note_durations.
TrebleEstimated ==
    pc \in {"treble_durations", "durations", "key", "treble_part", "bass_part", "done"}

BassEstimated ==
    pc \in {"durations", "key", "treble_part", "bass_part", "done"}

KeyDetected == pc \in {"key", "treble_part", "bass_part", "done"}

\* C2: every Note Event of the treble or the bass sequence has a semitone
\* inside the piano range 21..108; a peak whose rounded semitone is outside
\* it gives no Note Event.
C2_PitchInPianoRange ==
    /\ \A i \in 1..Len(treble_notes) :
           treble_notes[i][2].pitch >= 21 /\ treble_notes[i][2].pitch <= 108
    /\ \A i \in 1..Len(bass_notes) :
           bass_notes[i][2].pitch >= 21 /\ bass_notes[i][2].pitch <= 108

\* The only peak of the only window, 25 Hz (semitone 19) with magnitude 0.20,
\* was processed and gave no Note Event.
C2_Witness ==
    /\ pc = "return" /\ Len(onset_times) = 1
    /\ freq = 2500 /\ magnitude = 20 /\ note_obj = None
    /\ treble_notes = <<>> /\ bass_notes = <<>>

\* C6: a Note Event is in the treble sequence exactly when its pitch is >= 60
\* and in the bass sequence otherwise (so two events of the same pitch are in
\* the same voice whatever their onset time), and every peak that is mapped
\* to a note and is above the magnitude threshold gives one event in one of
\* the two voices.
C6_VoiceByPitch ==
    /\ [](/\ \A i \in 1..Len(treble_notes) : treble_notes[i][2].pitch >= 60
          /\ \A i \in 1..Len(bass_notes) : bass_notes[i][2].pitch < 60)
    /\ [][pc = "peaks" =>
            LET top == strongest_peaks(peaks)
                accepted == {k \in 1..Len(top) :
                                /\ frequency_to_note(peaks[top[k]].freq) # None
                                /\ peaks[top[k]].magnitude > 5}
            IN  Len(treble_notes') + Len(bass_notes')
                    = Len(treble_notes) + Len(bass_notes) + Cardinality(accepted)]_vars

\* Middle C was detected at two onsets and is in the treble both times, and
\* the B below it is in the bass.
C6_Witness ==
    /\ \E i, j \in 1..Len(treble_notes) :
           /\ treble_notes[i][2].pitch = 60 /\ treble_notes[j][2].pitch = 60
           /\ treble_notes[i][1] # treble_notes[j][1]
    /\ \E i \in 1..Len(bass_notes) : bass_notes[i][2].pitch = 59

\* The note length C7 gives for a gap: 0.5 beat up to 0.375 s, 1 beat up to
\* 0.75 s, 2 beats up to 1.5 s, 4 beats above.
C7_Length(gap) ==
    IF gap <= 15 THEN 10 ELSE IF gap <= 30 THEN 20 ELSE IF gap <= 60 THEN 40 ELSE 80

\* C7: after _estimate_note_durations every event of a voice that has a
\* successor has the length its gap to the next event of the same voice
\* quantizes to, and no event has a length other than 0.5, 1, 2 or 4 beats.
C7_DurationFromGap ==
    /\ TrebleEstimated =>
           /\ \A i \in 1..(Len(treble_notes) - 1) :
                  treble_notes[i][2].quarterLength
                      = C7_Length(treble_notes[i + 1][1] - treble_notes[i][1])
           /\ \A i \in 1..Len(treble_notes) :
                  treble_notes[i][2].quarterLength \in {10, 20, 40, 80}
    /\ BassEstimated =>
           /\ \A i \in 1..(Len(bass_notes) - 1) :
                  bass_notes[i][2].quarterLength
                      = C7_Length(bass_notes[i + 1][1] - bass_notes[i][1])
           /\ \A i \in 1..Len(bass_notes) :
                  bass_notes[i][2].quarterLength \in {10, 20, 40, 80}

\* A treble event at 0 s has the length of its gap of 0.375 s to the next
\* treble event, half a beat, and a bass event at 0 s, with a treble event
\* between it and the next bass event 1.125 s later, has 2 beats.
C7_Witness ==
    /\ BassEstimated
    /\ Len(treble_notes) >= 2 /\ Len(bass_notes) >= 2
    /\ treble_notes[1][1] = 0 /\ treble_notes[2][1] = 15
    /\ treble_notes[1][2].quarterLength = 10
    /\ bass_notes[1][1] = 0 /\ bass_notes[2][1] = 45
    /\ bass_notes[1][2].quarterLength = 40

\* C8: an event with no successor in its voice has the default length of one
\* beat, the last of several events as well as the only event of a voice, and
\* a voice of zero or one event is returned with the same events.
C8_DefaultDuration ==
    /\ [](/\ (TrebleEstimated /\ treble_notes # <<>>) =>
                 treble_notes[Len(treble_notes)][2].quarterLength = 20
          /\ (BassEstimated /\ bass_notes # <<>>) =>
                 bass_notes[Len(bass_notes)][2].quarterLength = 20)
    /\ [][/\ (pc = "extracted" /\ Len(treble_notes) <= 1) =>
                 treble_notes' = treble_notes
          /\ (pc = "treble_durations" /\ Len(bass_notes) <= 1) =>
                 bass_notes' = bass_notes]_vars

\* Both voices went through the estimator, the treble with two events and
\* the bass with one, and the last treble event and the bass event have one
\* beat each.
C8_Witness ==
    /\ BassEstimated
    /\ Len(treble_notes) = 2 /\ Len(bass_notes) = 1
    /\ treble_notes[2][2].quarterLength = 20
    /\ bass_notes[1][2].quarterLength = 20

\* How many notes of the list have the pitch class c.
C9_Count(notes, c) ==
    Cardinality({i \in 1..Len(notes) : notes[i][2].pitch % 12 = c})

\* C9: _detect_key_signature returns the zero-accidental key for no notes,
\* and otherwise the table entry of a pitch class that no other pitch class of
\* the notes of both voices is more frequent than; it is always one of the 12
\* table values.
C9_KeyOfMostFrequent ==
    KeyDetected =>
        LET all_notes == treble_notes \o bass_notes
        IN  /\ detected_key.sharps \in -4..7
            /\ all_notes = <<>> => detected_key = KeySignature(0)
            /\ all_notes # <<>> =>
                   \E c \in 0..11 :
                       /\ C9_Count(all_notes, c) > 0
                       /\ \A d \in 0..11 :
                              C9_Count(all_notes, d) <= C9_Count(all_notes, c)
                       /\ detected_key = KeySignature(major_keys[c])

\* B was detected twice and C once, the treble C coming first in the list,
\* and the key is B major, 5 sharps.
C9_Witness ==
    /\ KeyDetected
    /\ C9_Count(treble_notes, 0) = 1 /\ Len(treble_notes) = 1
    /\ C9_Count(bass_notes, 11) = 2 /\ Len(bass_notes) = 2
    /\ detected_key = KeySignature(5)

\* An element of the measure sounds or rests during the beat (0..3).
C10_Accounted(measure, beat) ==
    \E k \in 1..Len(measure.elements) :
        /\ measure.elements[k].offset < 20 * beat + 20
        /\ measure.elements[k].offset + measure.elements[k].quarterLength > 20 * beat

\* C10: in every measure of every part of the score every one of the four
\* beats is accounted for by a Note Event or by an explicit rest.
C10_EveryBeatAccounted ==
    pc = "done" =>
        \A p \in 1..Len(score) :
            \A m \in 1..Len(score[p].measures) :
                \A beat \in 0..3 : C10_Accounted(score[p].measures[m], beat)

\* The call got no onset from _detect_onsets (a silent buffer) and is past it.
C11_Silent == onset_times = <<>> /\ pc \notin {"start", "loaded"}

\* C11: when _detect_onsets returns no onset, the call goes on to its end
\* without an error, both voices have no Note Event, the key signature is the
\* zero-accidental one, and each part of the score is one measure holding a
\* whole rest.
C11_SilentInput ==
    C11_Silent =>
        /\ treble_notes = <<>> /\ bass_notes = <<>>
        /\ pc # "done" => ENABLED Next
        /\ KeyDetected => detected_key = [sharps |-> 0]
        /\ pc = "done" =>
               /\ Len(score) = 2
               /\ \A p \in 1..2 :
                      /\ score[p].key_sig = [sharps |-> 0]
                      /\ score[p].measures =
                             << [number |-> 1,
                                 elements |-> << [offset |-> 0, rest |-> TRUE,
                                                  pitch |-> -1,
                                                  quarterLength |-> 80] >>] >>

\* A call on a 3 s buffer without an onset returned its score.
C11_Witness ==
    pc = "done" /\ onset_times = <<>> /\ audio_duration = 120 /\ Len(score) = 2

\* The place of a stage in the order of transcribe_to_midi; the loop over the
\* onsets is one stage.
C14_Stage(p) ==
    CASE p = "start" -> 0
      [] p = "loaded" -> 1
      [] p \in {"window", "peaks", "return"} -> 2
      [] p = "extracted" -> 3
      [] p = "treble_durations" -> 4
      [] p = "durations" -> 5
      [] p = "key" -> 6
      [] p = "treble_part" -> 7
      [] p = "bass_part" -> 8
      [] p = "done" -> 9

\* C14: the stages of a call run in their order, none skipped and none again;
\* the durations are estimated when every onset has been analysed, the Note
\* Events do not change after it; the key signature is set in one step only,
\* from the events of both voices, before a part exists, and both parts of
\* the score carry it.
C14_StageOrdering ==
    /\ [][C14_Stage(pc') \in {C14_Stage(pc), C14_Stage(pc) + 1}]_vars
    /\ [][detected_key' # detected_key => (pc = "durations" /\ pc' = "key")]_vars
    /\ [][C14_Stage(pc) >= 5 =>
              (treble_notes' = treble_notes /\ bass_notes' = bass_notes)]_vars
    /\ [](C14_Stage(pc) >= 3 => onset_index = Len(onset_times) + 1)
    /\ [](C14_Stage(pc) < 6 =>
              (detected_key = None /\ treble_part = None /\ bass_part = None))
    /\ [](KeyDetected =>
              LET all_notes == treble_notes \o bass_notes
              IN  all_notes # <<>> =>
                      \E c \in 0..11 :
                          /\ \A d \in 0..11 :
                                 C9_Count(all_notes, d) <= C9_Count(all_notes, c)
                          /\ C9_Count(all_notes, c) > 0
                          /\ detected_key.sharps = major_keys[c])
    /\ [](pc = "done" =>
              /\ score = <<treble_part, bass_part>>
              /\ treble_part.key_sig = detected_key
              /\ bass_part.key_sig = detected_key)

\* A call returned a score whose parts both carry B major, the key of the two
\* bass events, while the one treble event is a C.
C14_Witness ==
    /\ pc = "done"
    /\ Len(treble_notes) = 1 /\ treble_notes[1][2].pitch = 60
    /\ Len(bass_notes) = 2
    /\ bass_notes[1][2].pitch = 59 /\ bass_notes[2][2].pitch = 59
    /\ score[1].key_sig = [sharps |-> 5] /\ score[2].key_sig = [sharps |-> 5]

\* The score is well formed: two parts with a clef and the detected key, each
\* with at least one measure, the measures numbered from 1, every element at
\* an offset inside its measure and of a canonical length, and a voice without
\* events a part of one whole rest.
C15_ValidScore ==
    /\ Len(score) = 2
    /\ score[1].clef = "treble" /\ score[2].clef = "bass"
    /\ \A p \in 1..2 :
           /\ score[p].key_sig = detected_key
           /\ Len(score[p].measures) >= 1
           /\ \A m \in 1..Len(score[p].measures) :
                  /\ score[p].measures[m].number = m
                  /\ \A k \in 1..Len(score[p].measures[m].elements) :
                         LET e == score[p].measures[m].elements[k]
                         IN  /\ e.offset >= 0 /\ e.offset < 80
                             /\ e.quarterLength \in {10, 20, 40, 80}
                             /\ e.rest \/ (e.pitch >= 21 /\ e.pitch <= 108)
    /\ \A p \in 1..2 :
           (IF p = 1 THEN treble_notes ELSE bass_notes) = <<>> =>
               /\ Len(score[p].measures) = 1
               /\ Len(score[p].measures[1].elements) = 1
               /\ score[p].measures[1].elements[1].rest

C16_WindowClipping ==
    /\ [](pc = "peaks" =>
            LET t == onset_times[onset_index]
                w == window(t, audio_duration)
                length == w.end_sample - w.start_sample
            IN  /\ 0 <= w.start_sample
                /\ w.start_sample <= w.end_sample
                /\ w.end_sample <= samples(audio_duration)
                /\ w.start_sample = IF t <= 2 THEN 0 ELSE samples(t - 2)
                /\ length <= 6616
                /\ (length < 6614) => w.end_sample = samples(audio_duration)
                /\ (w.end_sample <= w.start_sample) => peaks = <<>>)
    /\ [][(pc = "peaks" /\ peaks = <<>>) =>
              (treble_notes' = treble_notes /\ bass_notes' = bass_notes)]_vars

\* The window of an onset 0.125 s before the end of a 3 s buffer, cut short
\* at the last sample of the buffer, was analysed and has peaks.
C16_Witness ==
    /\ pc = "peaks" /\ audio_duration = 120 /\ onset_times[onset_index] = 115
    /\ window(115, 120).end_sample = 66150
    /\ window(115, 120).end_sample - window(115, 120).start_sample < 6614
    /\ peaks # <<>>

(***************************************************************************)
(* The end-to-end scenario of the tone bursts, checked under SpecBursts.   *)
(***************************************************************************)
\* The semitone of each tone of the bursts.
C12_Semitone(f) ==
    CASE f = 44000 -> 69 [] f = 52325 -> 72 [] f = 13081 -> 48 [] f = 16481 -> 52

C17_Semitone(f) ==
    CASE f = 13081 -> 48 [] f = 24694 -> 59 [] f = 26163 -> 60
      [] f = 32963 -> 64 [] f = 39200 -> 67 [] f = 44000 -> 69

\* The magnitude of the peak of the window whose semitone is m.
C17_MagnitudeOf(m) ==
    LET k == CHOOSE i \in 1..Len(peaks) : C17_Semitone(peaks[i].freq) = m
    IN  peaks[k].magnitude

\* C17: of the peaks of a window the four of highest magnitude are retained,
\* in descending order of magnitude, no retained peak weaker than a dropped
\* one; the Note Events an onset adds are at most four, each from a peak of
\* magnitude above 0.05 that fewer than four peaks are stronger than, in
\* descending order of magnitude within a voice, and a peak above 0.05
\* without an event has at least four peaks that are not weaker.
C17_PeakCapAndRanking ==
    /\ [](pc = "peaks" =>
            LET top == strongest_peaks(peaks)
                kept == {top[i] : i \in 1..Len(top)}
            IN  /\ Len(top) <= 4
                /\ Len(top) = IF Len(peaks) < 4 THEN Len(peaks) ELSE 4
                /\ Cardinality(kept) = Len(top)
                /\ kept \subseteq 1..Len(peaks)
                /\ \A i \in 1..Len(top) : \A j \in (i + 1)..Len(top) :
                       peaks[top[i]].magnitude >= peaks[top[j]].magnitude
                /\ \A k \in (1..Len(peaks)) \ kept : \A j \in kept :
                       peaks[k].magnitude <= peaks[j].magnitude)
    /\ [][pc = "peaks" =>
            LET all == treble_notes' \o bass_notes'
                added == {all[i][2].pitch : i \in 1..Len(all)}
                stronger(k) == {j \in 1..Len(peaks) :
                                   peaks[j].magnitude > peaks[k].magnitude}
                as_strong(k) == {j \in 1..Len(peaks) :
                                    j # k /\ peaks[j].magnitude >= peaks[k].magnitude}
            IN  /\ Len(all) <= 4
                /\ Cardinality(added) = Len(all)
                /\ \A i \in 1..Len(all) : all[i][1] = onset_times[onset_index]
                /\ \A k \in 1..Len(peaks) :
                       IF C17_Semitone(peaks[k].freq) \in added
                       THEN /\ peaks[k].magnitude > 5
                            /\ Cardinality(stronger(k)) < 4
                       ELSE \/ peaks[k].magnitude <= 5
                            \/ Cardinality(as_strong(k)) >= 4
                /\ \A i \in 1..Len(treble_notes') :
                       \A j \in (i + 1)..Len(treble_notes') :
                           C17_MagnitudeOf(treble_notes'[i][2].pitch)
                               >= C17_MagnitudeOf(treble_notes'[j][2].pitch)
                /\ \A i \in 1..Len(bass_notes') :
                       \A j \in (i + 1)..Len(bass_notes') :
                           C17_MagnitudeOf(bass_notes'[i][2].pitch)
                               >= C17_MagnitudeOf(bass_notes'[j][2].pitch)]_vars

\* A window of five or six peaks gave four Note Events, two in each voice, the
\* last one from a peak of magnitude 0.20.
C17_Witness ==
    /\ pc = "return"
    /\ Len(treble_notes) = 2 /\ Len(bass_notes) = 2
    /\ magnitude = 20 /\ note_obj # None

(***************************************************************************)
(* Two calls side by side, checked under SpecCalls.                        *)
(***************************************************************************)
\* What a call on the buffer returns when it runs alone: its Note Events, its
\* key signature and its score.
C18_Alone(audio) ==
    LET loc == extract_notes(audio, 1,
                             [treble |-> <<>>, bass |-> <<>>, freq |-> 0,
                              magnitude |-> 0, note_obj |-> None])
        t == estimate_note_durations(loc.treble)
        b == estimate_note_durations(loc.bass)
        k == detect_key_signature(t \o b)
    IN  [treble_notes |-> t, bass_notes |-> b, detected_key |-> k,
         score |-> << create_dynamic_part(t, "treble", k, audio.duration),
                      create_dynamic_part(b, "bass", k, audio.duration) >>]

\* A call that has returned has the Note Events, the key signature and the
\* score it has when it runs alone on its buffer; a call on a buffer whose two
\* onsets each carry a B3 has two bass events and B major.
C18_ResultAlone ==
    \A c \in {1, 2} :
        call[c].pc = "done" =>
            /\ call[c].treble_notes = C18_Alone(call[c].audio).treble_notes
            /\ call[c].bass_notes = C18_Alone(call[c].audio).bass_notes
            /\ call[c].detected_key = C18_Alone(call[c].audio).detected_key
            /\ call[c].score = C18_Alone(call[c].audio).score
            /\ (/\ call[c].audio.onset_times = <<0, 15>>
                /\ \A i \in 1..2 :
                       call[c].audio.windows[i]
                           = << [freq |-> 24694, magnitude |-> 20] >>)
                   => /\ call[c].treble_notes = <<>>
                      /\ call[c].bass_notes =
                             << <<0, [pitch |-> 59, quarterLength |-> 10]>>,
                                <<15, [pitch |-> 59, quarterLength |-> 20]>> >>
                      /\ call[c].detected_key = [sharps |-> 5]

\* C18: a step of one call changes no local of the other call, and a call
\* that has returned has the Note Events, the key signature and the score it
\* has when it runs alone on its buffer, whatever the other call did between
\* its stages.
C18_Independence ==
    /\ [][\A c \in {1, 2} :
              call'[c] # call[c] => call'[3 - c] = call[3 - c]]_vars
    /\ []C18_ResultAlone

\* The first call has returned the score of a buffer with two B3 onsets while
\* the second call, on a buffer with one C4 onset, is between its stages.
C18_Witness ==
    /\ call[1].pc = "done"
    /\ call[1].detected_key = [sharps |-> 5] /\ Len(call[1].bass_notes) = 2
    /\ call[2].pc = "extracted"
    /\ Len(call[2].treble_notes) = 1 /\ call[2].bass_notes = <<>>

(***************************************************************************)
(* Cancellation, checked under SpecCancel, and configuration errors,       *)
(* checked under Spec.                                                     *)
(***************************************************************************)
\* C19: once the cancellation signal is set the call starts no later stage
\* (the signal is looked at between two stages, so the stage it is in may
\* come to its end).
C19_NoStageAfterCancel ==
    [][cancel_requested => C14_Stage(pc') = C14_Stage(pc)]_vars

\* C20: no onset detection or spectral analysis runs on a buffer shorter than
\* the analysis window of 0.3 s: such a configuration is rejected before the
\* audio is processed.
C20_InvalidConfigRejected ==
    pc \notin {"start", "loaded"} => audio_duration >= 12

(***************************************************************************)
(* Claims about the measures of a transcribed score, the order of the      *)
(* events of a voice and the key signature, checked under Spec.            *)
(***************************************************************************)
\* C25: the treble part and the bass part of the returned score have the same
\* number of measures, max(1, ceil(audio duration / 2 s)).
C25_SameMeasures ==
    pc = "done" =>
        LET by_duration == (audio_duration + 79) \div 80
            n == IF by_duration < 1 THEN 1 ELSE by_duration
        IN  /\ Len(score[1].measures) = n
            /\ Len(score[2].measures) = n

\* The elements of all the measures of a part, one after the other.
RECURSIVE C26_Elements(_, _)
C26_Elements(part, m) ==
    IF m > Len(part.measures) THEN <<>>
    ELSE part.measures[m].elements \o C26_Elements(part, m + 1)

\* Every note of the list is in the part, in measure floor(onset / 2 s) at the
\* beat offset that is left of its onset, and the part holds as many elements
\* as the list has notes, none of them a rest.
C26_Placed(part, notes) ==
    notes # <<>> =>
        /\ \A i \in 1..Len(notes) :
               LET t == notes[i][1]
                   m == t \div 80
               IN  /\ m < Len(part.measures)
                   /\ part.measures[m + 1].number = m + 1
                   /\ \E k \in 1..Len(part.measures[m + 1].elements) :
                          LET e == part.measures[m + 1].elements[k]
                          IN  /\ e.rest = FALSE
                              /\ e.pitch = notes[i][2].pitch
                              /\ e.quarterLength = notes[i][2].quarterLength
                              /\ e.offset >= 0 /\ e.offset < 80
                              /\ m * 80 + e.offset = t
        /\ Len(C26_Elements(part, 1)) = Len(notes)
        /\ \A k \in 1..Len(C26_Elements(part, 1)) :
               C26_Elements(part, 1)[k].rest = FALSE

\* C26: _create_dynamic_part puts every Note Event of a voice into measure
\* floor(onset / 2 s), which the part has, at a beat offset in [0, 4) with
\* measure index * 4 + beat offset = onset / 0.5 s, and neither drops nor
\* duplicates an event.
C26_MeasurePlacement ==
    /\ pc \in {"treble_part", "bass_part", "done"} =>
           C26_Placed(treble_part, treble_notes)
    /\ pc \in {"bass_part", "done"} => C26_Placed(bass_part, bass_notes)

\* The bass part of a 3 s buffer was built from three events, the first in
\* measure 1 and the last, at 2.625 s, in measure 2.
C26_Witness ==
    /\ pc = "bass_part" /\ audio_duration = 120 /\ Len(bass_notes) = 3
    /\ bass_notes[1][1] = 0 /\ bass_notes[3][1] = 105
    /\ Len(bass_part.measures) = 2
    /\ Len(bass_part.measures[2].elements) >= 1

\* C27: no element of a measure of the returned score ends after the measure:
\* its beat offset plus its length is at most 4 beats.
C27_WithinMeasure ==
    pc = "done" =>
        \A p \in 1..Len(score) :
            \A m \in 1..Len(score[p].measures) :
                \A k \in 1..Len(score[p].measures[m].elements) :
                    score[p].measures[m].elements[k].offset
                        + score[p].measures[m].elements[k].quarterLength <= 80

\* The onset times of the list never go down.
C28_Ascending(notes) ==
    \A i \in 1..(Len(notes) - 1) : notes[i][1] <= notes[i + 1][1]

\* C28 as stated: the events of a voice handed to the Duration Estimator and
\* to the Score Assembler have strictly increasing onset times.
C28_StrictlyIncreasing ==
    pc \notin {"start", "loaded", "window", "peaks"} =>
        /\ \A i \in 1..(Len(treble_notes) - 1) :
               treble_notes[i][1] < treble_notes[i + 1][1]
        /\ \A i \in 1..(Len(bass_notes) - 1) :
               bass_notes[i][1] < bass_notes[i + 1][1]

\* C28, amended: the events of a voice have non-decreasing onset times, at
\* most four of them share an onset, and every gap used for a duration is at
\* least zero.
C28_NonDecreasing ==
    /\ C28_Ascending(treble_notes)
    /\ C28_Ascending(bass_notes)
    /\ \A i \in 1..Len(treble_notes) :
           Cardinality({j \in 1..Len(treble_notes) :
                            treble_notes[j][1] = treble_notes[i][1]}) <= 4
    /\ \A i \in 1..Len(bass_notes) :
           Cardinality({j \in 1..Len(bass_notes) :
                            bass_notes[j][1] = bass_notes[i][1]}) <= 4

\* Two treble events of the onset at 0 s, C4 and A4, went through the Duration
\* Estimator, and the first has the length of a gap of zero, half a beat.
C28_Witness ==
    /\ TrebleEstimated
    /\ Len(treble_notes) >= 2
    /\ treble_notes[1][1] = 0 /\ treble_notes[2][1] = 0
    /\ treble_notes[1][2].pitch # treble_notes[2][2].pitch
    /\ treble_notes[1][2].quarterLength = 10

\* C29: the key signature is the one _detect_key_signature gives for the same
\* notes in another order: the bass notes before the treble notes, and the
\* combined list backwards.
C29_OrderIndependent ==
    KeyDetected =>
        /\ detected_key = detect_key_signature(bass_notes \o treble_notes)
        /\ detected_key = detect_key_signature(reversed(treble_notes \o bass_notes))

(***************************************************************************)
(* Ranges and Transposition of the arranger.                               *)
(***************************************************************************)
TRUMPET_MIN == 55
TRUMPET_MAX == 84
TROMBONE_MIN == 40
TROMBONE_MAX == 77
MIDDLE_C == 60

\* interval.Interval(name): its name and the semitones it moves a pitch by.
BB_TRUMPET == [name |-> "M2", semitones |-> 2]
OCTAVE_UP == [name |-> "P8", semitones |-> 12]
OCTAVE_DOWN == [name |-> "P8", semitones |-> -12]

\* pitch.transpose(interval), on the pitch space number of the pitch.
transpose(ps, interval) == ps + interval.semitones

(***************************************************************************)
(* _transpose_note_to_range, one iteration of its loops at a time.         *)
(***************************************************************************)
\* The lowest and the highest MIDI pitch a note is given.
LowestPitch == 0
HighestPitch == 127

\* The ranges arrange_for_trumpet and arrange_for_trombone pass.
InstrumentRanges ==
    {[min_pitch |-> TRUMPET_MIN, max_pitch |-> TRUMPET_MAX],
     [min_pitch |-> TROMBONE_MIN, max_pitch |-> TROMBONE_MAX]}

\* _transpose_note_to_range is called on a note with one of the two ranges.
InitRange ==
    /\ PitchIdle /\ PipeIdle
    /\ cancel_requested = FALSE
    /\ call = [c \in {1, 2} |-> CallIdle]
    /\ arranger = ArrangerIdle
    /\ pattern = PatternIdle
    /\ fit \in {[pc |-> "raise", start |-> p, ps |-> p,
                 min_pitch |-> r.min_pitch, max_pitch |-> r.max_pitch] :
                    p \in LowestPitch..HighestPitch, r \in InstrumentRanges}

\* The body of "while note_obj.pitch.ps < min_pitch".
RaiseOctave ==
    /\ fit.pc = "raise"
    /\ fit.ps < fit.min_pitch
    /\ fit' = [fit EXCEPT !.ps = transpose(fit.ps, OCTAVE_UP)]
    /\ UNCHANGED <<pitchVars, pipeVars, cancel_requested, call, arranger,
                   pattern>>

\* The first loop ends: the pitch is not below min_pitch.
EndRaise ==
    /\ fit.pc = "raise"
    /\ ~(fit.ps < fit.min_pitch)
    /\ fit' = [fit EXCEPT !.pc = "lower"]
    /\ UNCHANGED <<pitchVars, pipeVars, cancel_requested, call, arranger,
                   pattern>>

\* The body of the second loop with a fifth for the octave.
LowerOctave_fifth ==
    /\ fit.pc = "lower"
    /\ fit.ps > fit.max_pitch
    /\ fit' = [fit EXCEPT !.ps = fit.ps - 7]
    /\ UNCHANGED <<pitchVars, pipeVars, cancel_requested, call, arranger,
                   pattern>>

\* The body of "while note_obj.pitch.ps > max_pitch".
LowerOctave ==
    /\ fit.pc = "lower"
    /\ fit.ps > fit.max_pitch
    /\ fit' = [fit EXCEPT !.ps = transpose(fit.ps, OCTAVE_DOWN)]
    /\ UNCHANGED <<pitchVars, pipeVars, cancel_requested, call, arranger,
                   pattern>>

\* The second loop ends and note_obj is returned.
ReturnNote ==
    /\ fit.pc = "lower"
    /\ ~(fit.ps > fit.max_pitch)
    /\ fit' = [fit EXCEPT !.pc = "done"]
    /\ UNCHANGED <<pitchVars, pipeVars, cancel_requested, call, arranger,
                   pattern>>

NextRange == RaiseOctave \/ EndRaise \/ LowerOctave \/ ReturnNote

\* The interpreter goes on with the function while it has a step to take.
SpecRange == InitRange /\ [][NextRange]_vars /\ WF_vars(NextRange)

\* What _transpose_note_to_range has returned is inside the range, differs
\* from the pitch it was called with by whole octaves, and is that pitch when
\* it was inside the range.
C21_Result ==
    fit.pc = "done" =>
        /\ fit.min_pitch <= fit.ps /\ fit.ps <= fit.max_pitch
        /\ (fit.ps - fit.start) % 12 = 0
        /\ (fit.min_pitch <= fit.start /\ fit.start <= fit.max_pitch)
               => fit.ps = fit.start

\* C21: for the trumpet range and the trombone range _transpose_note_to_range
\* terminates for every starting pitch, and returns a pitch inside the range
\* that differs from the starting pitch by whole octaves; a pitch already
\* inside the range is returned unchanged.
C21_RangeFitting ==
    /\ <>(fit.pc = "done")
    /\ []C21_Result

\* The call for MIDI pitch 30 and the trumpet range has returned 66, three
\* octaves up.
C21_Witness ==
    /\ fit.pc = "done" /\ fit.start = 30
    /\ fit.min_pitch = TRUMPET_MIN /\ fit.ps = 66

(***************************************************************************)
(* KeySignatures.transpose_key_signature.                                  *)
(***************************************************************************)
\* The key signatures the branches of the function cover; every other key
\* is returned as it came.
transpose_key_signature(original_key, transposition_interval) ==
    IF original_key.sharps = 0 /\ transposition_interval.name = "M2"
    THEN KeySignature(2)
    ELSE IF original_key.sharps = 0 /\ transposition_interval.name = "P5"
    THEN KeySignature(1)
    ELSE IF original_key.sharps = 1 /\ transposition_interval.name = "M2"
    THEN KeySignature(3)
    ELSE IF original_key.sharps = 2 /\ transposition_interval.name = "M2"
    THEN KeySignature(4)
    ELSE original_key

(***************************************************************************)
(* The BrassArranger: parts, measures and their elements.                  *)
(***************************************************************************)
\* stream.highestTime of a measure: where its last element ends.
highestTime(elements) ==
    IF elements = <<>> THEN 0
    ELSE LET ends == {elements[k].offset + elements[k].quarterLength :
                          k \in 1..Len(elements)}
         IN  CHOOSE h \in ends : \A x \in ends : x <= h

\* measure.append(element), for each element of the list in turn: the element
\* is put where the measure ends.
RECURSIVE appended(_, _)
appended(target, elements) ==
    IF elements = <<>> THEN target
    ELSE appended(
             Append(target,
                    [Head(elements) EXCEPT !.offset = highestTime(target)]),
             Tail(elements))

\* The two loops of _transpose_note_to_range, on the pitch of the note.
RECURSIVE raised(_, _)
raised(ps, min_pitch) ==
    IF ps < min_pitch THEN raised(transpose(ps, OCTAVE_UP), min_pitch) ELSE ps

RECURSIVE lowered(_, _)
lowered(ps, max_pitch) ==
    IF ps > max_pitch THEN lowered(transpose(ps, OCTAVE_DOWN), max_pitch)
    ELSE ps

transpose_note_to_range(ps, min_pitch, max_pitch) ==
    lowered(raised(ps, min_pitch), max_pitch)

\* _process_measure_elements: the elements of the source measure, in the
\* order of notesAndRests, appended to the target measure: a Note as a new
\* Note, transposed and moved into the range, anything else as a Rest.
RECURSIVE process_measure_elements(_, _, _, _, _)
process_measure_elements(source, target, transposition_interval, min_range, max_range) ==
    IF source = <<>> THEN target
    ELSE LET element == Head(source)
             transposed ==
                 IF transposition_interval # None
                 THEN transpose(element.pitch, transposition_interval)
                 ELSE element.pitch
             new_note ==
                 [pitch |-> transpose_note_to_range(transposed, min_range,
                                                    max_range),
                  quarterLength |-> element.quarterLength]
             new ==
                 IF element.rest = FALSE
                 THEN NoteAt(highestTime(target), new_note)
                 ELSE RestAt(highestTime(target), element.quarterLength)
         IN  process_measure_elements(Tail(source), Append(target, new),
                                      transposition_interval, min_range,
                                      max_range)

\* The first KeySignature of the part, or KeySignature(0) when it has none.
original_key_of(part) ==
    IF part.key_sig = None THEN KeySignature(0) ELSE part.key_sig

\* arrange_for_trumpet without the transposition interval.
arrange_for_trumpet_untransposed(part) ==
    [instrument |-> "Trumpet", clef |-> "none",
     key_sig |-> transpose_key_signature(original_key_of(part), BB_TRUMPET),
     measures |->
         [m \in 1..Len(part.measures) |->
             [number |-> part.measures[m].number,
              elements |->
                  process_measure_elements(part.measures[m].elements, <<>>,
                                           None, TRUMPET_MIN, TRUMPET_MAX)]]]

\* arrange_for_trumpet, on the treble part.
arrange_for_trumpet(part) ==
    [instrument |-> "Trumpet", clef |-> "none",
     key_sig |-> transpose_key_signature(original_key_of(part), BB_TRUMPET),
     measures |->
         [m \in 1..Len(part.measures) |->
             [number |-> part.measures[m].number,
              elements |->
                  process_measure_elements(part.measures[m].elements, <<>>,
                                           BB_TRUMPET, TRUMPET_MIN,
                                           TRUMPET_MAX)]]]

\* arrange_for_trombone, on the bass part.
arrange_for_trombone(part) ==
    [instrument |-> "Trombone", clef |-> "bass",
     key_sig |-> original_key_of(part),
     measures |->
         [m \in 1..Len(part.measures) |->
             [number |-> part.measures[m].number,
              elements |->
                  process_measure_elements(part.measures[m].elements, <<>>,
                                           None, TROMBONE_MIN,
                                           TROMBONE_MAX)]]]

\* The elements _split_single_part_by_pitch appends to the treble measure:
\* the Notes at or above middle C and everything that is not a Note.
treble_elements(elements) ==
    appended(<<>>, SelectSeq(elements,
                             LAMBDA e : e.rest \/ e.pitch >= MIDDLE_C))

\* The elements it appends to the bass measure.
bass_elements(elements) ==
    appended(<<>>, SelectSeq(elements,
                             LAMBDA e : e.rest \/ ~(e.pitch >= MIDDLE_C)))

\* _split_single_part_by_pitch: the two new parts, with the key signature of
\* the piano part and a measure for each of its measures.
split_single_part_by_pitch(piano_part) ==
    [treble_part |->
         [clef |-> "none", key_sig |-> piano_part.key_sig,
          measures |->
              [m \in 1..Len(piano_part.measures) |->
                  [number |-> piano_part.measures[m].number,
                   elements |->
                       treble_elements(piano_part.measures[m].elements)]]],
     bass_part |->
         [clef |-> "none", key_sig |-> piano_part.key_sig,
          measures |->
              [m \in 1..Len(piano_part.measures) |->
                  [number |-> piano_part.measures[m].number,
                   elements |->
                       bass_elements(piano_part.measures[m].elements)]]]]

(***************************************************************************)
(* Scores given to the arranger.                                           *)
(***************************************************************************)
\* A Note of the pitch and the length, and a Rest of the length, before they
\* are put into a measure.
PitchedNote(ps, ql) == NoteAt(0, [pitch |-> ps, quarterLength |-> ql])

PlainRest(ql) == RestAt(0, ql)

\* A measure of the number with the elements one after the other.
MeasureOf(number, elements) ==
    [number |-> number, elements |-> appended(<<>>, elements)]

\* The key signature elements a part can have: none, or one of the keys of
\* the table of the Key Signature Estimator.
PartKeys == {None} \cup {KeySignature(k) : k \in -4..7}

\* Measures of an upper voice: notes inside, above and below the trumpet
\* range, rests, and a numbering that starts at 0 for a pickup.
TrebleMeasures ==
    { << MeasureOf(1, <<PitchedNote(60, 20), PlainRest(20),
                        PitchedNote(96, 40)>>),
         MeasureOf(2, <<PlainRest(80)>>) >>,
      << MeasureOf(0, <<PitchedNote(83, 20)>>),
         MeasureOf(1, <<PitchedNote(40, 40), PitchedNote(72, 40)>>) >> }

\* Measures of a lower voice.
BassMeasures ==
    { << MeasureOf(1, <<PitchedNote(28, 40), PlainRest(40)>>),
         MeasureOf(2, <<PitchedNote(90, 80)>>) >>,
      << MeasureOf(0, <<PlainRest(20)>>),
         MeasureOf(1, <<PitchedNote(45, 80)>>) >> }

\* Measures of a single piano part, with notes on both sides of middle C.
PianoMeasures ==
    { << MeasureOf(1, <<PitchedNote(72, 20), PitchedNote(48, 20),
                        PlainRest(20), PitchedNote(60, 20)>>),
         MeasureOf(2, <<PitchedNote(59, 80)>>) >> }

\* Scores of two parts, of three parts and of a single part, and the scores
\* transcribe_to_midi returns for a treble note and a bass note.
InputScores ==
    {<< [clef |-> "treble", key_sig |-> k, measures |-> t],
        [clef |-> "bass", key_sig |-> k, measures |-> b] >> :
            k \in PartKeys, t \in TrebleMeasures, b \in BassMeasures}
    \cup
    {<< [clef |-> "treble", key_sig |-> k, measures |-> t],
        [clef |-> "bass", key_sig |-> k, measures |-> b],
        [clef |-> "bass", key_sig |-> k, measures |-> b] >> :
            k \in {KeySignature(0)}, t \in TrebleMeasures,
            b \in BassMeasures}
    \cup
    {<< [clef |-> "treble", key_sig |-> k, measures |-> p] >> :
            k \in PartKeys, p \in PianoMeasures}
    \cup
    {<< create_dynamic_part(<< <<15, Note(n)>> >>, "treble",
                            KeySignature(major_keys[n % 12]), 120),
        create_dynamic_part(<< <<105, Note(n - 24)>> >>, "bass",
                            KeySignature(major_keys[n % 12]), 120) >> :
            n \in {60, 69, 107}}

(***************************************************************************)
(* A BrassArranger is constructed and generate_outputs is called.          *)
(***************************************************************************)
\* __init__ has the score, from the transcriber or from converter.parse.
InitArrange ==
    /\ PitchIdle /\ PipeIdle
    /\ cancel_requested = FALSE
    /\ call = [c \in {1, 2} |-> CallIdle]
    /\ fit = FitIdle
    /\ pattern = PatternIdle
    /\ arranger \in {[ArrangerIdle EXCEPT !.pc = "parsed", !.score = sc] :
                         sc \in InputScores}

\* _extract_parts with "> 2" for ">= 2".
ExtractParts_more_than_two ==
    /\ arranger.pc = "parsed"
    /\ arranger' =
           IF Len(arranger.score) > 2
           THEN [arranger EXCEPT !.pc = "extracted",
                                 !.treble_part = arranger.score[1],
                                 !.bass_part = arranger.score[2]]
           ELSE [arranger EXCEPT
                    !.pc = "extracted",
                    !.treble_part =
                        split_single_part_by_pitch(arranger.score[1]).treble_part,
                    !.bass_part =
                        split_single_part_by_pitch(arranger.score[1]).bass_part]
    /\ UNCHANGED <<pitchVars, pipeVars, cancel_requested, call, fit, pattern>>

\* _extract_parts, the last step of __init__.
ExtractParts ==
    /\ arranger.pc = "parsed"
    /\ arranger' =
           IF Len(arranger.score) >= 2
           THEN [arranger EXCEPT !.pc = "extracted",
                                 !.treble_part = arranger.score[1],
                                 !.bass_part = arranger.score[2]]
           ELSE [arranger EXCEPT
                    !.pc = "extracted",
                    !.treble_part =
                        split_single_part_by_pitch(arranger.score[1]).treble_part,
                    !.bass_part =
                        split_single_part_by_pitch(arranger.score[1]).bass_part]
    /\ UNCHANGED <<pitchVars, pipeVars, cancel_requested, call, fit, pattern>>

\* generate_outputs: trumpet_score.insert(0, self.arrange_for_trumpet()).
ArrangeForTrumpet ==
    /\ arranger.pc = "extracted"
    /\ arranger' = [arranger EXCEPT
                       !.pc = "trumpet",
                       !.trumpet_part = arrange_for_trumpet(arranger.treble_part)]
    /\ UNCHANGED <<pitchVars, pipeVars, cancel_requested, call, fit, pattern>>

\* generate_outputs: trombone_score.insert(0, self.arrange_for_trombone()).
ArrangeForTrombone ==
    /\ arranger.pc = "trumpet"
    /\ arranger' = [arranger EXCEPT
                       !.pc = "trombone",
                       !.trombone_part = arrange_for_trombone(arranger.bass_part)]
    /\ UNCHANGED <<pitchVars, pipeVars, cancel_requested, call, fit, pattern>>

\* create_brass_duet_score: both parts are arranged again and inserted into
\* the new score, the trumpet part first.
CreateBrassDuetScore ==
    /\ arranger.pc = "trombone"
    /\ arranger' = [arranger EXCEPT
                       !.pc = "done",
                       !.duet_score =
                           <<arrange_for_trumpet(arranger.treble_part),
                             arrange_for_trombone(arranger.bass_part)>>]
    /\ UNCHANGED <<pitchVars, pipeVars, cancel_requested, call, fit, pattern>>

NextArrange ==
    \/ ExtractParts
    \/ ArrangeForTrumpet
    \/ ArrangeForTrombone
    \/ CreateBrassDuetScore

SpecArrange == InitArrange /\ [][NextArrange]_vars

\* The target part has the measures of the source part, with their numbers,
\* and in each measure an element for each element of the source: a rest of
\* the same length for a rest, and for a note a note of the same length, of a
\* pitch inside lo..hi that is whole octaves away from the source pitch moved
\* up by the semitones.
C22_Arranged(source, target, semitones, lo, hi) ==
    /\ Len(target.measures) = Len(source.measures)
    /\ \A m \in 1..Len(source.measures) :
           /\ target.measures[m].number = source.measures[m].number
           /\ Len(target.measures[m].elements)
                  = Len(source.measures[m].elements)
           /\ \A k \in 1..Len(source.measures[m].elements) :
                  LET e == source.measures[m].elements[k]
                      t == target.measures[m].elements[k]
                  IN  /\ t.quarterLength = e.quarterLength
                      /\ t.rest = e.rest
                      /\ e.rest = FALSE =>
                             /\ lo <= t.pitch /\ t.pitch <= hi
                             /\ (t.pitch - (e.pitch + semitones)) % 12 = 0

\* C22: arrange_for_trumpet maps every note of the treble part to one note a
\* major second higher, moved by octaves into 55..84, of the same length;
\* arrange_for_trombone maps every note of the bass part to a note of the same
\* pitch class inside 40..77, of the same length; rests stay rests of the same
\* length, and the measures keep their count and their numbers.
C22_Arrangement ==
    /\ arranger.pc \in {"trumpet", "trombone", "done"} =>
           C22_Arranged(arranger.treble_part, arranger.trumpet_part, 2, 55, 84)
    /\ arranger.pc \in {"trombone", "done"} =>
           C22_Arranged(arranger.bass_part, arranger.trombone_part, 0, 40, 77)

\* Both parts of a two-part score are arranged: the C7 of the treble part
\* (96) has become the D5 (74) of the trumpet part after a quarter rest, and
\* the E1 of the bass part (28) the E2 (40) of the trombone part.
C22_Witness ==
    /\ arranger.pc = "trombone"
    /\ Len(arranger.score) = 2
    /\ Len(arranger.treble_part.measures[1].elements) = 3
    /\ Len(arranger.bass_part.measures[1].elements) = 2
    /\ arranger.treble_part.measures[1].elements[3].pitch = 96
    /\ arranger.trumpet_part.measures[1].elements[3].pitch = 74
    /\ arranger.trumpet_part.measures[1].elements[2].rest
    /\ arranger.bass_part.measures[1].elements[1].pitch = 28
    /\ arranger.trombone_part.measures[1].elements[1].pitch = 40

\* The notes of the measure.
C23_Notes(measure) ==
    {k \in 1..Len(measure.elements) : measure.elements[k].rest = FALSE}

\* The treble part and the bass part are the split of the single part at
\* middle C: measure by measure, the notes of the one are at or above 60,
\* those of the other below, and together they are as many as the notes of
\* the piano part.
C23_Split(piano_part, treble, bass) ==
    /\ Len(treble.measures) = Len(piano_part.measures)
    /\ Len(bass.measures) = Len(piano_part.measures)
    /\ \A m \in 1..Len(piano_part.measures) :
           /\ treble.measures[m].number = piano_part.measures[m].number
           /\ bass.measures[m].number = piano_part.measures[m].number
           /\ \A k \in C23_Notes(treble.measures[m]) :
                  treble.measures[m].elements[k].pitch >= 60
           /\ \A k \in C23_Notes(bass.measures[m]) :
                  bass.measures[m].elements[k].pitch < 60
           /\ Cardinality(C23_Notes(treble.measures[m]))
                  + Cardinality(C23_Notes(bass.measures[m]))
                  = Cardinality(C23_Notes(piano_part.measures[m]))

\* C23: after the construction of a BrassArranger treble_part and bass_part
\* are set, to the first two parts of a score of two or more parts and to the
\* split at middle C of a single part, and create_brass_duet_score returns a
\* score of exactly two parts, the trumpet arrangement of the treble part and
\* the trombone arrangement of the bass part.
C23_DuetScore ==
    /\ arranger.pc \in {"extracted", "trumpet", "trombone", "done"} =>
           /\ arranger.treble_part # None
           /\ arranger.bass_part # None
           /\ Len(arranger.score) >= 2 =>
                  /\ arranger.treble_part = arranger.score[1]
                  /\ arranger.bass_part = arranger.score[2]
           /\ Len(arranger.score) = 1 =>
                  C23_Split(arranger.score[1], arranger.treble_part,
                            arranger.bass_part)
    /\ arranger.pc = "done" =>
           /\ Len(arranger.duet_score) = 2
           /\ arranger.duet_score[1].instrument = "Trumpet"
           /\ arranger.duet_score[2].instrument = "Trombone"
           /\ C22_Arranged(arranger.treble_part, arranger.duet_score[1],
                           2, 55, 84)
           /\ C22_Arranged(arranger.bass_part, arranger.duet_score[2],
                           0, 40, 77)

\* The duet score of a single-part score: the C5 of the piano part is the D5
\* of the trumpet part, and its C3 is in the trombone part.
C23_Witness ==
    /\ arranger.pc = "done"
    /\ Len(arranger.score) = 1
    /\ Len(arranger.duet_score) = 2
    /\ arranger.duet_score[1].measures[1].elements[1].pitch = 74
    /\ arranger.duet_score[2].measures[1].elements[1].pitch = 48

\* C24: for every key signature of -4..7 sharps of the treble part, the key
\* signature of the trumpet part is the key a major second higher: two more
\* sharps, or ten fewer, which is the same key under another name.
C24_TrumpetKey ==
    (/\ arranger.pc \in {"trumpet", "trombone", "done"}
     /\ arranger.treble_part.key_sig # None
     /\ arranger.treble_part.key_sig.sharps \in -4..7) =>
        (arranger.trumpet_part.key_sig.sharps
            - (arranger.treble_part.key_sig.sharps + 2)) % 12 = 0

(***************************************************************************)
(* The template-based transcriber (ai_music_transcription).                *)
(***************************************************************************)
\* How many of the 18 expected notes, 9 of each voice, a recording lacks at
\* most.
MaxMissed == 2

\* range(9): the beats of the known pattern.
Beats == 0..8

expected_treble ==
    <<"C5", "D5", "E5", "G5", "F5", "E5", "D5", "E5", "C5">>

expected_bass ==
    <<"E3", "F3", "E3", "G3", "A3", "G3", "F3", "F3", "E3">>

\* note.Note(pitch_name + str(octave)) with quarterLength 1.0, for the names
\* of the two patterns.
template_note(note_name) ==
    Note(CASE note_name = "C5" -> 72
           [] note_name = "D5" -> 74
           [] note_name = "E5" -> 76
           [] note_name = "F5" -> 77
           [] note_name = "G5" -> 79
           [] note_name = "E3" -> 52
           [] note_name = "F3" -> 53
           [] note_name = "G3" -> 55
           [] note_name = "A3" -> 57)

\* _create_expected_structure: the detected note of list index i goes to
\* measure i // 4 + 1, beat i % 4, and the one of index 8 to beat 8.
create_expected_structure(detected_notes) ==
    [idx \in 1..Len(detected_notes) |->
        LET i == idx - 1
            measure_num == (i \div 4) + 1
            beat_in_measure == i % 4
            measure_time == IF i < 8
                            THEN (measure_num - 1) * 4 + beat_in_measure
                            ELSE 8
        IN  <<measure_time, template_note(detected_notes[idx][2])>>]

\* The first note of the list at the beat, or None.
found_note(notes, beat_time) ==
    LET at == {k \in 1..Len(notes) : notes[k][1] = beat_time}
    IN  IF at = {} THEN None
        ELSE notes[CHOOSE k \in at : \A j \in at : k <= j][2]

\* The note of the beat, or a quarter rest, inserted at the offset.
note_or_rest(notes, beat_time, beat) ==
    IF found_note(notes, beat_time) # None
    THEN NoteAt(beat * 20, found_note(notes, beat_time))
    ELSE RestAt(beat * 20, 20)

\* _create_structured_part: three measures, the first two of four beats with
\* a note or a quarter rest each, the third of one beat with a note or a
\* quarter rest, a quarter rest and a half rest.
create_structured_part(notes, clef_obj, key_sig) ==
    [clef |-> clef_obj, key_sig |-> key_sig,
     measures |->
         [measure_num \in 1..3 |->
             [number |-> measure_num,
              elements |->
                  IF measure_num <= 2
                  THEN [b \in 1..4 |->
                           note_or_rest(notes, (measure_num - 1) * 4 + b - 1,
                                        b - 1)]
                  ELSE <<note_or_rest(notes, 8, 0), RestAt(20, 20),
                         RestAt(40, 40)>>]]]

\* The recordings: for each voice the beats at which one of the strategies of
\* _extract_known_pattern finds the expected frequency.
FewBeats == {m \in SUBSET Beats : Cardinality(m) <= MaxMissed}

Recordings ==
    {[treble |-> Beats \ mt, bass |-> Beats \ mb] :
         mt \in FewBeats, mb \in FewBeats}

\* transcribe_to_midi has loaded a recording and _extract_known_pattern is
\* at its first beat.
InitPattern ==
    /\ PitchIdle /\ PipeIdle
    /\ cancel_requested = FALSE
    /\ call = [c \in {1, 2} |-> CallIdle]
    /\ fit = FitIdle
    /\ arranger = ArrangerIdle
    /\ pattern \in {[PatternIdle EXCEPT !.pc = "beats", !.audible = a] :
                        a \in {r \in Recordings :
                                  Cardinality(Beats \ r.treble)
                                      + Cardinality(Beats \ r.bass)
                                      <= MaxMissed}}

\* One pass of "for i in range(9)": each voice gets the expected note of the
\* beat once, if a strategy detects it.
DetectBeat ==
    /\ pattern.pc = "beats"
    /\ pattern.i < 9
    /\ LET i == pattern.i
           detected_treble == i \in pattern.audible.treble
           detected_bass == i \in pattern.audible.bass
       IN  pattern' =
               [pattern EXCEPT
                   !.i = i + 1,
                   !.treble_template_notes =
                       IF detected_treble
                       THEN Append(@, <<i, expected_treble[i + 1]>>) ELSE @,
                   !.bass_template_notes =
                       IF detected_bass
                       THEN Append(@, <<i, expected_bass[i + 1]>>) ELSE @]
    /\ UNCHANGED <<pitchVars, pipeVars, cancel_requested, call, fit, arranger>>

\* _extract_known_pattern returns treble_notes, bass_notes.
ReturnPattern ==
    /\ pattern.pc = "beats"
    /\ pattern.i = 9
    /\ pattern' = [pattern EXCEPT !.pc = "pattern"]
    /\ UNCHANGED <<pitchVars, pipeVars, cancel_requested, call, fit, arranger>>

\* The two calls of _create_expected_structure.
CreateExpectedStructure ==
    /\ pattern.pc = "pattern"
    /\ pattern' =
           [pattern EXCEPT
               !.pc = "structured",
               !.treble_notes =
                   create_expected_structure(pattern.treble_template_notes),
               !.bass_notes =
                   create_expected_structure(pattern.bass_template_notes)]
    /\ UNCHANGED <<pitchVars, pipeVars, cancel_requested, call, fit, arranger>>

\* The two calls of _create_structured_part and the score of the two parts.
CreateStructuredParts ==
    /\ pattern.pc = "structured"
    /\ pattern' =
           [pattern EXCEPT
               !.pc = "done",
               !.score =
                   <<create_structured_part(pattern.treble_notes, "treble",
                                            KeySignature(0)),
                     create_structured_part(pattern.bass_notes, "bass",
                                            KeySignature(0))>>]
    /\ UNCHANGED <<pitchVars, pipeVars, cancel_requested, call, fit, arranger>>

NextPattern ==
    \/ DetectBeat
    \/ ReturnPattern
    \/ CreateExpectedStructure
    \/ CreateStructuredParts

SpecPattern == InitPattern /\ [][NextPattern]_vars

\* The element of the part at beat position k of the three measures.
C30_At(part, k) == part.measures[(k \div 4) + 1].elements[(k % 4) + 1]

\* The lengths of the elements of the measure, added up.
RECURSIVE C30_Total(_)
C30_Total(elements) ==
    IF elements = <<>> THEN 0
    ELSE Head(elements).quarterLength + C30_Total(Tail(elements))

\* C30: in the score of the template-based transcriber the note detected at
\* beat k of a voice is at beat position k of the three measures (measure
\* floor(k / 4) + 1, beat k mod 4), whatever was detected at the beats before;
\* each beat gives each voice at most one note; and each of the three
\* measures adds up to 4 beats of notes and rests.
C30_PlacedAtBeat ==
    pattern.pc = "done" =>
        /\ \A k \in pattern.audible.treble :
               /\ C30_At(pattern.score[1], k).rest = FALSE
               /\ C30_At(pattern.score[1], k).offset = (k % 4) * 20
               /\ C30_At(pattern.score[1], k).pitch
                      = template_note(expected_treble[k + 1]).pitch
        /\ \A k \in pattern.audible.bass :
               /\ C30_At(pattern.score[2], k).rest = FALSE
               /\ C30_At(pattern.score[2], k).offset = (k % 4) * 20
               /\ C30_At(pattern.score[2], k).pitch
                      = template_note(expected_bass[k + 1]).pitch
        /\ \A k \in Beats :
               /\ Cardinality({j \in 1..Len(pattern.treble_template_notes) :
                                  pattern.treble_template_notes[j][1] = k}) <= 1
               /\ Cardinality({j \in 1..Len(pattern.bass_template_notes) :
                                  pattern.bass_template_notes[j][1] = k}) <= 1
        /\ \A p \in 1..2 :
               /\ Len(pattern.score[p].measures) = 3
               /\ \A m \in 1..3 :
                      C30_Total(pattern.score[p].measures[m].elements) = 80

====
